---- MODULE Spec2Model ----
(***************************************************************************)
(* Compliance decision and audit core of CSV-GameChanger:                  *)
(*   - Agents/risk_strategist.py    GAMP 5 risk scoring                    *)
(*   - Agents/verification_agent.py URS verification rule engine           *)
(*   - Agents/integrity_manager.py  append-only CSV audit trail            *)
(* Text is modelled as a sequence of atoms (words and single special       *)
(* characters), so that joining, quoting and replacing are computed.       *)
(***************************************************************************)
EXTENDS Integers, Sequences, FiniteSets, TLC

VARIABLES
    risk_call,          \* the last call into risk_strategist.py and its result
    urs,                \* the URS dictionary handed to verify_urs
    matches,            \* what _query_pinecone returned for it
    verification,       \* the VerificationResult of the last verify_urs call
    _KNOWN_REG_VERSIONS,\* module-level set of verification_agent.py
    audit_file,         \* content of output/audit_trail.csv (empty: no file yet)
    archive_dir,        \* output/logic_archives: file name -> file content
    _write_lock,        \* holder of integrity_manager._write_lock, or NoThread
    clock,              \* what datetime.now(timezone.utc) reads
    call,               \* per thread: the log_audit_event call it is running
    io_errors,          \* how many storage operations have raised OSError
    matrix_call,        \* the last matrix lookup of requirement_architect.py
    matrix_history,     \* every matrix lookup made so far, with its result
    transform,          \* the last transform_urs_to_ur_fr call and its outcome
    api_call,           \* the last AgentController call and its outcome
    api_calls,          \* how many AgentController calls were made
    response,           \* the last answer of the change-request webhook
    audit_log,          \* the lines of audit_trail.log (logging.FileHandler)
    requests,           \* how many change requests the webhook has received
    hash_call,          \* two records and the reasoning hash of each
    vcall               \* per thread: the verify_urs call it is running

vars == <<risk_call, urs, matches, verification, _KNOWN_REG_VERSIONS,
          audit_file, archive_dir, _write_lock, clock, call,
          io_errors, matrix_call, matrix_history, transform,
          api_call, api_calls, response, audit_log, requests,
          hash_call, vcall>>

risk_vars == <<risk_call>>
verify_vars == <<urs, matches, verification, _KNOWN_REG_VERSIONS>>
ledger_vars == <<audit_file, archive_dir, _write_lock, clock, call,
                 io_errors>>
matrix_vars == <<matrix_call, matrix_history>>
transform_vars == <<transform>>
api_vars == <<api_call, api_calls, response, audit_log, requests>>
hash_vars == <<hash_call>>
thread_vars == <<vcall>>

(***************************************************************************)
(* str.lower() on the words the model feeds to the case-insensitive        *)
(* lookups.                                                                *)
(***************************************************************************)
Lower(s) ==
    CASE s = "HIGH" -> "high"
      [] s = "High" -> "high"
      [] s = "Critical" -> "critical"
      [] s = "Medium" -> "medium"
      [] s = "LOW" -> "low"
      [] s = "Low" -> "low"
      [] s = "Emergency" -> "emergency"
      [] s = "Standard" -> "standard"
      [] s = "NORMAL" -> "normal"
      [] s = "Skip" -> "skip"
      [] s = "Patient" -> "patient"
      [] s = "Validation" -> "validation"
      [] s = "Testing" -> "testing"
      [] OTHER -> s

(***************************************************************************)
(* Agents/risk_strategist.py                                               *)
(***************************************************************************)
RiskLevel_LOW == [name |-> "LOW", value |-> "Low"]
RiskLevel_MEDIUM == [name |-> "MEDIUM", value |-> "Medium"]
RiskLevel_HIGH == [name |-> "HIGH", value |-> "High"]
RiskLevel == {RiskLevel_LOW, RiskLevel_MEDIUM, RiskLevel_HIGH}

Severity_LOW == [name |-> "LOW", value |-> 1]
Severity_MEDIUM == [name |-> "MEDIUM", value |-> 2]
Severity_HIGH == [name |-> "HIGH", value |-> 3]
Severity == {Severity_LOW, Severity_MEDIUM, Severity_HIGH}

Occurrence_RARE == [name |-> "RARE", value |-> 1]
Occurrence_OCCASIONAL == [name |-> "OCCASIONAL", value |-> 2]
Occurrence_FREQUENT == [name |-> "FREQUENT", value |-> 3]
Occurrence == {Occurrence_RARE, Occurrence_OCCASIONAL, Occurrence_FREQUENT}

Detectability_HIGH == [name |-> "HIGH", value |-> 1]
Detectability_MEDIUM == [name |-> "MEDIUM", value |-> 2]
Detectability_LOW == [name |-> "LOW", value |-> 3]
Detectability == {Detectability_HIGH, Detectability_MEDIUM, Detectability_LOW}

TestingStrategy_UNSCRIPTED ==
    [name |-> "UNSCRIPTED", value |-> "Unscripted Testing"]
TestingStrategy_HYBRID ==
    [name |-> "HYBRID", value |-> "Hybrid Testing (Scripted + Unscripted)"]
TestingStrategy_RIGOROUS_SCRIPTED ==
    [name |-> "RIGOROUS_SCRIPTED", value |-> "Rigorous Scripted Testing"]

\* Mutant: a score of 12 is no longer Medium.
_determine_risk_level_below_12(rpn) ==
    IF rpn <= 4 THEN RiskLevel_LOW
    ELSE IF rpn < 12 THEN RiskLevel_MEDIUM
    ELSE RiskLevel_HIGH

_determine_risk_level(rpn) ==
    IF rpn <= 4 THEN RiskLevel_LOW
    ELSE IF rpn <= 12 THEN RiskLevel_MEDIUM
    ELSE RiskLevel_HIGH

\* Mutant: the severity test of calculate_risk_score is dropped.
calculate_risk_score_no_override(severity, occurrence, detectability) ==
    LET rpn == severity.value * occurrence.value * detectability.value
    IN  <<rpn, _determine_risk_level(rpn)>>

\* Mutant: the detectability rank is left out of the score.
calculate_risk_score_two_ranks(severity, occurrence, detectability) ==
    LET rpn == severity.value * occurrence.value
    IN  IF severity = Severity_HIGH THEN <<rpn, RiskLevel_HIGH>>
        ELSE <<rpn, _determine_risk_level(rpn)>>

calculate_risk_score(severity, occurrence, detectability) ==
    IF severity = Severity_HIGH
    THEN LET rpn == severity.value * occurrence.value * detectability.value
         IN  <<rpn, RiskLevel_HIGH>>
    ELSE LET rpn == severity.value * occurrence.value * detectability.value
             risk_level == _determine_risk_level(rpn)
         IN  <<rpn, risk_level>>

\* Mutant: only a High risk level gets more than unscripted testing.
get_csa_testing_strategy_high_only(risk_level) ==
    IF risk_level = RiskLevel_HIGH THEN TestingStrategy_RIGOROUS_SCRIPTED
    ELSE TestingStrategy_UNSCRIPTED

get_csa_testing_strategy(risk_level) ==
    IF risk_level = RiskLevel_LOW THEN TestingStrategy_UNSCRIPTED
    ELSE IF risk_level = RiskLevel_MEDIUM THEN TestingStrategy_HYBRID
    ELSE TestingStrategy_RIGOROUS_SCRIPTED

\* Mutant: the criticality is looked up as it is written, not lowered.
map_criticality_to_severity_as_written(system_criticality) ==
    LET key == system_criticality
    IN  CASE key = "high" -> Severity_HIGH
          [] key = "critical" -> Severity_HIGH
          [] key = "medium" -> Severity_MEDIUM
          [] key = "moderate" -> Severity_MEDIUM
          [] key = "low" -> Severity_LOW
          [] key = "minor" -> Severity_LOW
          [] OTHER -> Severity_MEDIUM

map_criticality_to_severity(system_criticality) ==
    LET key == Lower(system_criticality)
    IN  CASE key = "high" -> Severity_HIGH
          [] key = "critical" -> Severity_HIGH
          [] key = "medium" -> Severity_MEDIUM
          [] key = "moderate" -> Severity_MEDIUM
          [] key = "low" -> Severity_LOW
          [] key = "minor" -> Severity_LOW
          [] OTHER -> Severity_MEDIUM

map_change_type_to_occurrence(change_type) ==
    LET key == Lower(change_type)
    IN  CASE key = "emergency" -> Occurrence_FREQUENT
          [] key = "expedited" -> Occurrence_FREQUENT
          [] key = "normal" -> Occurrence_OCCASIONAL
          [] key = "standard" -> Occurrence_RARE
          [] key = "routine" -> Occurrence_RARE
          [] OTHER -> Occurrence_OCCASIONAL

assess_change_request(system_criticality, change_type, detectability) ==
    LET severity == map_criticality_to_severity(system_criticality)
        occurrence == map_change_type_to_occurrence(change_type)
        scored == calculate_risk_score(severity, occurrence, detectability)
        rpn == scored[1]
        risk_level == scored[2]
        testing_strategy == get_csa_testing_strategy(risk_level)
    IN  [severity |-> severity.name,
         occurrence |-> occurrence.name,
         detectability |-> detectability.name,
         rpn |-> rpn,
         risk_level |-> risk_level.value,
         testing_strategy |-> testing_strategy.value,
         patient_safety_override |-> (severity = Severity_HIGH)]

\* Mutant: the detectability that is left out defaults to LOW.
assess_change_request_default_low(system_criticality, change_type) ==
    assess_change_request(system_criticality, change_type, Detectability_LOW)

\* line 179: a call without detectability gets Detectability.MEDIUM
assess_change_request_default(system_criticality, change_type) ==
    assess_change_request(system_criticality, change_type,
                          Detectability_MEDIUM)

\* Free-text inputs a ServiceNow change request may carry.
CriticalityInputs ==
    {"high", "HIGH", "High", "critical", "Critical", "medium", "Medium",
     "moderate", "low", "LOW", "minor", "urgent", ""}
ChangeTypeInputs ==
    {"emergency", "Emergency", "expedited", "normal", "NORMAL", "standard",
     "Standard", "routine", "hotfix", ""}

(***************************************************************************)
(* Text helpers.  A str is a sequence of atoms: a word without special     *)
(* characters, or one special character on its own.                        *)
(***************************************************************************)
RECURSIVE Flatten(_)
\* ''.join(text): the text as one string
Flatten(text) ==
    IF text = <<>> THEN "" ELSE Head(text) \o Flatten(Tail(text))

RECURSIVE Join(_, _)
\* sep.join(parts), sep a text as well
Join(parts, sep) ==
    IF parts = <<>> THEN <<>>
    ELSE IF Len(parts) = 1 THEN parts[1]
    ELSE parts[1] \o sep \o Join(Tail(parts), sep)

RECURSIVE Replace(_, _, _)
\* text.replace(old, new) for a one-character old
Replace(text, old, new) ==
    IF text = <<>> THEN <<>>
    ELSE (IF Head(text) = old THEN new ELSE <<Head(text)>>)
             \o Replace(Tail(text), old, new)

Contains(text, atoms) == \E i \in 1..Len(text) : text[i] \in atoms

IsPrefix(s, t) == Len(s) <= Len(t) /\ SubSeq(t, 1, Len(s)) = s

(***************************************************************************)
(* Agents/integrity_manager.py: constants                                  *)
(***************************************************************************)
NoneValue == [py |-> "None"]
\* an Optional[str] argument that was supplied
Str(text) == [py |-> "str", value |-> text]
NoThread == 0

CSV_COLUMNS ==
    <<<<"Timestamp">>, <<"User_ID">>, <<"Agent_Name">>,
      <<"Action_Performed">>, <<"Decision_Logic">>, <<"Reasoning_Hash">>,
      <<"Compliance_Impact">>>>

DEFAULT_IMPACT == <<"Operational">>

\* _IMPACT_MAP.get(action, DEFAULT_IMPACT)
_IMPACT_MAP_get(action) ==
    CASE action = <<"SEARCH_KNOWLEDGE_BASE">> -> <<"Reference Query">>
      [] action \in {<<"URS_GENERATED">>, <<"URS_GENERATION_FAILED">>,
                     <<"URS_TRANSFORMED_TO_UR_FR">>}
           -> <<"GxP Documentation">>
      [] action \in {<<"DOCUMENT_INGESTED">>, <<"DOCUMENT_INGESTION_FAILED">>,
                     <<"BATCH_INGESTION_COMPLETED">>}
           -> <<"Data Integrity">>
      [] action \in {<<"GAP_ANALYSIS_COMPLETED">>, <<"GAP_ANALYSIS_FAILED">>,
                     <<"URS_VERIFIED">>, <<"URS_BATCH_VERIFIED">>}
           -> <<"Regulatory Compliance">>
      [] action = <<"RISK_ASSESSMENT_COMPLETED">> -> <<"Patient Safety">>
      [] action \in {<<"TEST_SCRIPT_GENERATED">>,
                     <<"TEST_SCRIPT_GENERATION_FAILED">>,
                     <<"TEST_BATCH_GENERATED">>}
           -> <<"Validation Evidence">>
      [] action \in {<<"CHANGE_REQUEST_RECEIVED">>,
                     <<"CHANGE_REQUEST_ASSESSED">>,
                     <<"CHANGE_REQUEST_FAILED">>}
           -> <<"Change Control">>
      [] action = <<"DOCUMENT_SIGN_OFF">> -> <<"Electronic Signature">>
      [] action = <<"COMPLIANCE_EXCEPTION">> -> <<"Compliance Exception">>
      [] OTHER -> DEFAULT_IMPACT

(***************************************************************************)
(* hashlib.sha256(payload).hexdigest(): collision free on the model's      *)
(* payloads.  The digest is one atom spelling the term sha256(payload), so *)
(* two digests are equal exactly when the hashed strings are.              *)
(***************************************************************************)
sha256_hexdigest(payload) == <<"sha256(" \o Flatten(payload) \o ")">>

\* digest[:8]; like the digest, taken to be collision free
hex_prefix8(digest) == <<"first8 " \o Flatten(digest)>>

\* Mutant: the timestamp is left out of the hashed payload.
_compute_reasoning_hash_no_timestamp(timestamp, user_id, agent_name, action, decision_logic, compliance_impact) ==
    sha256_hexdigest(Join(<<user_id, agent_name, action,
                            decision_logic, compliance_impact>>, <<"|">>))

_compute_reasoning_hash(timestamp, user_id, agent_name, action, decision_logic, compliance_impact) ==
    LET payload == Join(<<timestamp, user_id, agent_name, action,
                          decision_logic, compliance_impact>>, <<"|">>)
    IN  sha256_hexdigest(payload)

(***************************************************************************)
(* The csv module, excel dialect, as csv.writer(f).writerow writes it and  *)
(* csv.reader reads it back.                                               *)
(***************************************************************************)
DELIMITER == ","
QUOTECHAR == "\""
LINETERMINATOR == "\r\n"
LineBreaks == {LINETERMINATOR, "\n", "\r"}

\* QUOTE_MINIMAL with doublequote
csv_quote_field(field) ==
    IF Contains(field, {DELIMITER, QUOTECHAR} \cup LineBreaks)
    THEN <<QUOTECHAR>> \o Replace(field, QUOTECHAR, <<QUOTECHAR, QUOTECHAR>>)
             \o <<QUOTECHAR>>
    ELSE field

csv_writerow(row) ==
    Join([i \in 1..Len(row) |-> csv_quote_field(row[i])], <<DELIMITER>>)
        \o <<LINETERMINATOR>>

\* the reader's state: its parser state, the field and the row being read,
\* and the rows read
csv_start == [st |-> "start_field", field |-> <<>>, row |-> <<>>,
              rows |-> <<>>]

\* the reader's state machine on one character c
csv_step(s, c) ==
    LET end_field == [s EXCEPT !.st = "start_field", !.field = <<>>,
                               !.row = Append(s.row, s.field)]
        end_row == [s EXCEPT !.st = "start_field", !.field = <<>>,
                             !.row = <<>>,
                             !.rows = Append(s.rows, Append(s.row, s.field))]
        add(next) == [s EXCEPT !.st = next, !.field = Append(s.field, c)]
    IN  CASE s.st = "start_field" ->
               IF c = DELIMITER THEN end_field
               ELSE IF c \in LineBreaks
               THEN (IF s.row = <<>>
                     THEN [s EXCEPT !.rows = Append(s.rows, <<>>)]
                     ELSE end_row)
               ELSE IF c = QUOTECHAR THEN [s EXCEPT !.st = "quoted"]
               ELSE add("in_field")
          [] s.st = "in_field" ->
               IF c = DELIMITER THEN end_field
               ELSE IF c \in LineBreaks THEN end_row
               ELSE add("in_field")
          [] s.st = "quoted" ->
               IF c = QUOTECHAR THEN [s EXCEPT !.st = "quote_in_quoted"]
               ELSE add("quoted")
          [] OTHER ->
               IF c = QUOTECHAR THEN add("quoted")
               ELSE IF c = DELIMITER THEN end_field
               ELSE IF c \in LineBreaks THEN end_row
               ELSE add("in_field")

csv_states == {"start_field", "in_field", "quoted", "quote_in_quoted"}

RECURSIVE csv_parse(_, _, _, _)
\* the reader's state after data[lo..hi], read from state s; the first half
\* is read before the second is begun
csv_parse(s, data, lo, hi) ==
    IF lo > hi THEN s
    ELSE IF lo = hi THEN csv_step(s, data[lo])
    ELSE LET mid == (lo + hi) \div 2
             first_half == csv_parse(s, data, lo, mid)
         IN  IF first_half.st \in csv_states
             THEN csv_parse(first_half, data, mid + 1, hi)
             ELSE first_half

\* list(csv.reader(f)) over the whole file
csv_reader(data) ==
    LET s == csv_parse(csv_start, data, 1, Len(data))
    IN  IF s.st = "start_field" /\ s.row = <<>> THEN s.rows
        ELSE Append(s.rows, Append(s.row, s.field))

(***************************************************************************)
(* Files.  open(path, "a") writes at the end; open(path, "w") truncates.   *)
(* A write that raises OSError leaves nothing, everything but the line     *)
(* terminator, or everything (the error came on close).                    *)
(***************************************************************************)
open_a_write(content, data) == content \o data
open_w_write(content, data) == data

FailedWrites(data) ==
    {<<>>, SubSeq(data, 1, Len(data) - 1), data}

\* a directory is a set of [name, content]; open(name, "w") replaces the file
dir_write(dir, name, content) ==
    {f \in dir : f.name # name} \cup {[name |-> name, content |-> content]}

dir_names(dir) == {f.name : f \in dir}

(***************************************************************************)
(* Agents/integrity_manager.py: the operations                             *)
(***************************************************************************)
NumThreads == 2
MaxIoErrors == 1

Threads == 1..NumThreads

\* the local variables of one verify_urs call
IdleVerification ==
    [pc |-> "idle", urs |-> NoneValue, matches |-> <<>>, new_versions |-> {},
     pending |-> <<>>]

\* datetime.now(timezone.utc).isoformat() at clock reading t
isoformat(t) ==
    <<"2026", "-", "11", "-", "04T12", ":", "00", ":",
      "00.00000" \o ToString(t), "+00", ":", "00">>

\* isinstance(value, list)
is_list(value) == value.type = "list"

\* "ok", or the exception raised
_validate_thought_process(thought_process) ==
    LET required_keys == {"inputs", "steps", "outputs"}
        missing == required_keys \ DOMAIN thought_process
    IN  IF missing # {} THEN "ValueError"
        ELSE IF ~is_list(thought_process["steps"]) THEN "ValueError"
        ELSE "ok"

\* json.dumps of one value of the thought process
json_value(value) ==
    IF is_list(value)
    THEN <<"[">> \o Join([i \in 1..Len(value.items) |-> <<value.items[i]>>],
                        <<",">>) \o <<"]">>
    ELSE <<value.json>>

\* Mutant: the archive refers to a hash of the decision logic alone.
archive_dict_logic_hash(timestamp, agent_name, action, user_id, compliance_impact, decision_logic, audit_trail_hash, thought_process) ==
    [schema_version |-> <<"1.0.0">>,
     archive_type |-> <<"logic_archive">>,
     audit_trail_hash |-> sha256_hexdigest(decision_logic),
     timestamp |-> timestamp,
     agent_name |-> agent_name,
     action |-> action,
     user_id |-> user_id,
     compliance_impact |-> compliance_impact,
     decision_logic_summary |-> decision_logic,
     inputs |-> thought_process["inputs"],
     steps |-> thought_process["steps"],
     outputs |-> thought_process["outputs"]]

\* the archive dict of _write_logic_archive, before its integrity entry
archive_dict(timestamp, agent_name, action, user_id, compliance_impact, decision_logic, audit_trail_hash, thought_process) ==
    [schema_version |-> <<"1.0.0">>,
     archive_type |-> <<"logic_archive">>,
     audit_trail_hash |-> audit_trail_hash,
     timestamp |-> timestamp,
     agent_name |-> agent_name,
     action |-> action,
     user_id |-> user_id,
     compliance_impact |-> compliance_impact,
     decision_logic_summary |-> decision_logic,
     inputs |-> thought_process["inputs"],
     steps |-> thought_process["steps"],
     outputs |-> thought_process["outputs"]]

\* json.dumps(archive, sort_keys=True): the values in key order
json_dumps_sorted(archive) ==
    Join(<<archive.schema_version, archive.action, archive.agent_name,
           archive.archive_type, archive.audit_trail_hash,
           archive.compliance_impact, archive.decision_logic_summary,
           json_value(archive.inputs), json_value(archive.outputs),
           json_value(archive.steps), archive.timestamp, archive.user_id>>,
         <<";">>)

\* the file _write_logic_archive writes: its name and its content
archive_filename(timestamp, action, audit_trail_hash) ==
    LET ts_compact == Replace(Replace(timestamp, ":", <<>>), "-", <<>>)
    IN  <<".">> \o action \o <<"_">> \o ts_compact \o <<"_">>
            \o hex_prefix8(audit_trail_hash) \o <<".json">>

archive_content(timestamp, agent_name, action, user_id, compliance_impact, decision_logic, audit_trail_hash, thought_process) ==
    LET archive == archive_dict(timestamp, agent_name, action, user_id,
                                compliance_impact, decision_logic,
                                audit_trail_hash, thought_process)
        archive_hash == sha256_hexdigest(json_dumps_sorted(archive))
    IN  [body |-> archive,
         integrity |-> [archive_hash |-> archive_hash,
                        algorithm |-> "sha256"]]

\* Mutant: the caller's compliance_impact is used as given.
resolve_impact_as_given(action, compliance_impact) ==
    IF compliance_impact = NoneValue THEN <<"None">>
    ELSE compliance_impact.value

\* lines 284-285 of log_audit_event
resolve_impact(action, compliance_impact) ==
    IF compliance_impact = NoneValue THEN _IMPACT_MAP_get(action)
    ELSE compliance_impact.value

(***************************************************************************)
(* Arguments of the log_audit_event calls the threads make.                *)
(***************************************************************************)
ChainA ==
    [inputs |-> [type |-> "dict", json |-> "{in}"],
     steps |-> [type |-> "list", items |-> <<"s1", "s2">>],
     outputs |-> [type |-> "dict", json |-> "{out}"]]
ChainB ==
    [inputs |-> [type |-> "dict", json |-> "{in}"],
     steps |-> [type |-> "list", items |-> <<"s3">>],
     outputs |-> [type |-> "dict", json |-> "{other}"]]
ChainNoSteps ==
    [inputs |-> [type |-> "dict", json |-> "{in}"],
     outputs |-> [type |-> "dict", json |-> "{out}"]]
ChainStepsNotList ==
    [inputs |-> [type |-> "dict", json |-> "{in}"],
     steps |-> [type |-> "str", json |-> "s1"],
     outputs |-> [type |-> "dict", json |-> "{out}"]]

LogArgs(agent_name, action, user_id, decision_logic, compliance_impact, thought_process) ==
    [agent_name |-> agent_name, action |-> action, user_id |-> user_id,
     decision_logic |-> decision_logic,
     compliance_impact |-> compliance_impact,
     thought_process |-> thought_process]

LogCalls ==
    {LogArgs(<<"RequirementArchitect">>, <<"URS_GENERATED">>, <<"SYSTEM">>,
             <<"Drafted URS">>, NoneValue, ChainA),
     LogArgs(<<"RequirementArchitect">>, <<"URS_GENERATED">>, <<"SYSTEM">>,
             <<"Drafted URS">>, NoneValue, ChainB),
     LogArgs(<<"RequirementArchitect">>, <<"URS_GENERATED">>, <<"SYSTEM">>,
             <<"Drafted URS", ",", " said ", QUOTECHAR, "ok", QUOTECHAR>>,
             NoneValue, NoneValue),
     LogArgs(<<"API">>, <<"CUSTOM_EVENT">>, <<"jdoe">>,
             <<"a", "|", "b">>, NoneValue, ChainNoSteps),
     LogArgs(<<"API">>, <<"CUSTOM_EVENT">>, <<"jdoe">>,
             <<"a", "|", "b">>, Str(<<"Change Control">>),
             ChainStepsNotList)}

\* the local variables of one log_audit_event call
IdleCall ==
    [pc |-> "idle", args |-> NoneValue, timestamp |-> <<>>,
     compliance_impact |-> <<>>, reasoning_hash |-> <<>>, row |-> <<>>,
     archive_path |-> <<>>, raised |-> "", returned |-> <<>>]

\* Mutant: the header is written with mode "w".
_ensure_csv_header_mode_w(file) ==
    open_w_write(file, csv_writerow(CSV_COLUMNS))

\* _ensure_csv_header: the file after the call
_ensure_csv_header(file) ==
    LET write_header == (file = <<>>)
    IN  IF write_header THEN open_a_write(file, csv_writerow(CSV_COLUMNS))
        ELSE file

\* lines 292-300: the row of a call
audit_row(timestamp, a, compliance_impact, reasoning_hash) ==
    <<timestamp, a.user_id, a.agent_name, a.action, a.decision_logic,
      reasoning_hash, compliance_impact>>

\* a thread calls log_audit_event; lines 282-300 compute the timestamp, the
\* impact, the hash and the row before the lock is taken.  Threads are
\* numbered in the order in which they make their call; the clock reads what
\* it read for the call before, or later.
LogAuditEvent(t) ==
    /\ call[t].pc = "idle"
    /\ \A u \in Threads : u < t => call[u].pc # "idle"
    /\ clock' \in {clock, clock + 1}
    /\ t = 1 => clock' = clock
    /\ \E a \in LogCalls :
          LET timestamp == isoformat(clock')
              compliance_impact ==
                  resolve_impact(a.action, a.compliance_impact)
              reasoning_hash ==
                  _compute_reasoning_hash(timestamp, a.user_id, a.agent_name,
                                          a.action, a.decision_logic,
                                          compliance_impact)
          IN  call' = [call EXCEPT ![t] =
                          [IdleCall EXCEPT
                              !.pc = "line302",
                              !.args = a,
                              !.timestamp = timestamp,
                              !.compliance_impact = compliance_impact,
                              !.reasoning_hash = reasoning_hash,
                              !.row = audit_row(timestamp, a,
                                                compliance_impact,
                                                reasoning_hash)]]
    /\ UNCHANGED <<audit_file, archive_dir, _write_lock, io_errors>>
    /\ UNCHANGED <<risk_vars, verify_vars, matrix_vars, transform_vars, api_vars,
                 hash_vars, thread_vars>>

\* line 302: with _write_lock
AcquireLock(t) ==
    /\ call[t].pc = "line302"
    /\ _write_lock = NoThread
    /\ _write_lock' = t
    /\ call' = [call EXCEPT ![t].pc = "line303"]
    /\ UNCHANGED <<audit_file, archive_dir, clock, io_errors>>
    /\ UNCHANGED <<risk_vars, verify_vars, matrix_vars, transform_vars, api_vars,
                 hash_vars, thread_vars>>

\* line 303: _ensure_csv_header(audit_path)
EnsureCsvHeader(t) ==
    /\ call[t].pc = "line303"
    /\ audit_file' = _ensure_csv_header(audit_file)
    /\ call' = [call EXCEPT ![t].pc = "line305"]
    /\ UNCHANGED <<archive_dir, _write_lock, clock, io_errors>>
    /\ UNCHANGED <<risk_vars, verify_vars, matrix_vars, transform_vars, api_vars,
                 hash_vars, thread_vars>>

\* line 303 raising OSError (mkdir, stat, open or write)
EnsureCsvHeaderFails(t) ==
    /\ io_errors < MaxIoErrors
    /\ io_errors' = io_errors + 1
    /\ call[t].pc = "line303"
    /\ \E written \in FailedWrites(_ensure_csv_header(audit_file)) :
          audit_file' = IF audit_file = <<>> THEN written ELSE audit_file
    /\ call' = [call EXCEPT ![t].pc = "unwind", ![t].raised = "OSError"]
    /\ UNCHANGED <<archive_dir, _write_lock, clock>>
    /\ UNCHANGED <<risk_vars, verify_vars, matrix_vars, transform_vars, api_vars,
                 hash_vars, thread_vars>>

\* lines 305-309: the row is appended
WriteRow(t) ==
    /\ call[t].pc = "line305"
    /\ audit_file' = open_a_write(audit_file, csv_writerow(call[t].row))
    /\ call' = [call EXCEPT ![t].pc = "line311"]
    /\ UNCHANGED <<archive_dir, _write_lock, clock, io_errors>>
    /\ UNCHANGED <<risk_vars, verify_vars, matrix_vars, transform_vars, api_vars,
                 hash_vars, thread_vars>>

\* lines 305-309 raising OSError
WriteRowFails(t) ==
    /\ io_errors < MaxIoErrors
    /\ io_errors' = io_errors + 1
    /\ call[t].pc = "line305"
    /\ \E written \in FailedWrites(csv_writerow(call[t].row)) :
          audit_file' = open_a_write(audit_file, written)
    /\ call' = [call EXCEPT ![t].pc = "unwind", ![t].raised = "OSError"]
    /\ UNCHANGED <<archive_dir, _write_lock, clock>>
    /\ UNCHANGED <<risk_vars, verify_vars, matrix_vars, transform_vars, api_vars,
                 hash_vars, thread_vars>>

\* what open(archive_path, "w") leaves when the dump raises after it
TruncatedArchive == [body |-> NoneValue, integrity |-> NoneValue]

\* lines 311-317 without a thought process, or with one that is rejected
ValidateThoughtProcess(t) ==
    /\ call[t].pc = "line311"
    /\ LET thought_process == call[t].args.thought_process
       IN  /\ \/ thought_process = NoneValue
              \/ _validate_thought_process(thought_process) # "ok"
           /\ call' = [call EXCEPT ![t] =
                IF thought_process = NoneValue
                THEN [@ EXCEPT !.pc = "line319"]
                ELSE [@ EXCEPT !.pc = "unwind",
                               !.raised =
                                   _validate_thought_process(thought_process)]]
    /\ UNCHANGED <<audit_file, archive_dir, _write_lock, clock, io_errors>>
    /\ UNCHANGED <<risk_vars, verify_vars, matrix_vars, transform_vars, api_vars,
                 hash_vars, thread_vars>>

\* lines 311-317 with a valid thought process: _write_logic_archive
WriteLogicArchive(t) ==
    /\ call[t].pc = "line311"
    /\ call[t].args.thought_process # NoneValue
    /\ _validate_thought_process(call[t].args.thought_process) = "ok"
    /\ LET c == call[t]
           a == c.args
           name == archive_filename(c.timestamp, a.action, c.reasoning_hash)
           content == archive_content(c.timestamp, a.agent_name, a.action,
                                      a.user_id, c.compliance_impact,
                                      a.decision_logic, c.reasoning_hash,
                                      a.thought_process)
       IN  /\ archive_dir' = dir_write(archive_dir, name, content)
           /\ call' = [call EXCEPT ![t].pc = "line319",
                                   ![t].archive_path = name]
    /\ UNCHANGED <<audit_file, _write_lock, clock, io_errors>>
    /\ UNCHANGED <<risk_vars, verify_vars, matrix_vars, transform_vars, api_vars,
                 hash_vars, thread_vars>>

\* _write_logic_archive raising OSError: before the open, or after it
WriteLogicArchiveFails(t) ==
    /\ call[t].pc = "line311"
    /\ call[t].args.thought_process # NoneValue
    /\ _validate_thought_process(call[t].args.thought_process) = "ok"
    /\ io_errors < MaxIoErrors
    /\ io_errors' = io_errors + 1
    /\ LET c == call[t]
           name == archive_filename(c.timestamp, c.args.action,
                                    c.reasoning_hash)
       IN  \/ archive_dir' = archive_dir
           \/ archive_dir' = dir_write(archive_dir, name, TruncatedArchive)
    /\ call' = [call EXCEPT ![t].pc = "unwind", ![t].raised = "OSError"]
    /\ UNCHANGED <<audit_file, _write_lock, clock>>
    /\ UNCHANGED <<risk_vars, verify_vars, matrix_vars, transform_vars, api_vars,
                 hash_vars, thread_vars>>

\* Mutant: the lock is released on return only, as with acquire() and
\* release() around the block instead of the with statement.
ReleaseLock_on_return_only(t) ==
    /\ call[t].pc \in {"line319", "unwind"}
    /\ _write_lock' = IF call[t].pc = "line319" THEN NoThread ELSE _write_lock
    /\ call' = [call EXCEPT ![t] =
                   IF call[t].pc = "line319"
                   THEN [@ EXCEPT !.pc = "returned",
                                  !.returned = call[t].reasoning_hash]
                   ELSE [@ EXCEPT !.pc = "raised"]]
    /\ UNCHANGED <<audit_file, archive_dir, clock, io_errors>>
    /\ UNCHANGED <<risk_vars, verify_vars, matrix_vars, transform_vars, api_vars,
                 hash_vars, thread_vars>>

\* the with block is left: the lock is released, the call returns or raises
ReleaseLock(t) ==
    /\ call[t].pc \in {"line319", "unwind"}
    /\ _write_lock' = NoThread
    /\ call' = [call EXCEPT ![t] =
                   IF call[t].pc = "line319"
                   THEN [@ EXCEPT !.pc = "returned",
                                  !.returned = call[t].reasoning_hash]
                   ELSE [@ EXCEPT !.pc = "raised"]]
    /\ UNCHANGED <<audit_file, archive_dir, clock, io_errors>>
    /\ UNCHANGED <<risk_vars, verify_vars, matrix_vars, transform_vars, api_vars,
                 hash_vars, thread_vars>>

(***************************************************************************)
(* Agents/verification_agent.py.  Statements and passages are texts whose  *)
(* atoms are lower- or mixed-case words and single spaces; a phrase is     *)
(* "in" a text when its atoms occur there contiguously.                    *)
(***************************************************************************)
RATIONALE_RELEVANCE_THRESHOLD == 45
VERIFICATION_MIN_SCORE == 35
EXCERPT_CHARS == 150
MaxMatches == 2

\* text.lower()
LowerText(text) == [i \in 1..Len(text) |-> Lower(text[i])]

\* phrase in text
occurs_in(phrase, text) ==
    \E i \in 1..(Len(text) - Len(phrase) + 1) :
        SubSeq(text, i, i + Len(phrase) - 1) = phrase

\* the words of a phrase, single spaces between them
Phrase(words) == Join([i \in 1..Len(words) |-> <<words[i]>>], <<" ">>)

HIGH_RISK_INDICATORS ==
    <<Phrase(<<"patient">>), Phrase(<<"safety">>), Phrase(<<"critical">>),
      Phrase(<<"gxp">>), Phrase(<<"sterile">>),
      Phrase(<<"batch", "release">>), Phrase(<<"adverse", "event">>),
      Phrase(<<"pharmacovigilance">>), Phrase(<<"clinical">>),
      Phrase(<<"life-sustaining">>), Phrase(<<"life-supporting">>),
      Phrase(<<"validated">>), Phrase(<<"21", "cfr", "part", "11">>)>>

_CONTRADICTION_PAIRS ==
    <<[requirement_phrases |->
           <<Phrase(<<"skip", "validation">>),
             Phrase(<<"no", "validation", "required">>),
             Phrase(<<"validation", "is", "unnecessary">>),
             Phrase(<<"does", "not", "require", "validation">>)>>,
       gamp5_keywords |->
           <<Phrase(<<"validation">>),
             Phrase(<<"shall", "be", "validated">>),
             Phrase(<<"validation", "is", "required">>)>>],
      [requirement_phrases |->
           <<Phrase(<<"skip", "testing">>),
             Phrase(<<"no", "testing", "required">>),
             Phrase(<<"testing", "is", "unnecessary">>),
             Phrase(<<"does", "not", "require", "testing">>)>>,
       gamp5_keywords |->
           <<Phrase(<<"testing">>), Phrase(<<"shall", "be", "tested">>),
             Phrase(<<"test", "plan">>), Phrase(<<"verification">>)>>],
      [requirement_phrases |->
           <<Phrase(<<"no", "audit", "trail">>),
             Phrase(<<"disable", "audit">>),
             Phrase(<<"audit", "trail", "is", "not", "needed">>),
             Phrase(<<"without", "audit", "trail">>)>>,
       gamp5_keywords |->
           <<Phrase(<<"audit", "trail">>), Phrase(<<"traceability">>),
             Phrase(<<"electronic", "record">>),
             Phrase(<<"21", "cfr", "part", "11">>)>>],
      [requirement_phrases |->
           <<Phrase(<<"no", "change", "control">>),
             Phrase(<<"bypass", "change", "control">>),
             Phrase(<<"without", "change", "control">>)>>,
       gamp5_keywords |->
           <<Phrase(<<"change", "control">>),
             Phrase(<<"change", "management">>)>>]>>

URS_REQUIRED_FIELDS ==
    <<"URS_ID", "Requirement_Statement", "Criticality",
      "Regulatory_Rationale">>

Verdict_APPROVED == "Approved"
Verdict_REJECTED == "Rejected"
CheckStatus_PASS == "Pass"
CheckStatus_FAIL == "Fail"

VerificationFinding(check_name, status, detail, gamp5_reference) ==
    [check_name |-> check_name, status |-> status, detail |-> detail,
     gamp5_reference |-> gamp5_reference]

\* text[:n], an atom counting as one character
Slice(text, n) == SubSeq(text, 1, IF Len(text) < n THEN Len(text) ELSE n)

\* _validate_urs: the missing fields, in the order of URS_REQUIRED_FIELDS
_validate_urs(u) ==
    LET absent(f) == f \notin DOMAIN u
    IN  SelectSeq(URS_REQUIRED_FIELDS, absent)

_format_gamp5_ref(ms) ==
    IF ms = <<>> THEN <<"No GAMP 5 reference available">>
    ELSE LET m == ms[1]
             src == IF m.source_document = <<>> THEN <<"GAMP 5">>
                    ELSE m.source_document
             pg == m.page_number
             txt == Slice(m.text, EXCERPT_CHARS)
             ver == m.reg_version
         IN  IF ver # ""
             THEN <<"Per ">> \o src \o <<" [", ver, "] (p.", ToString(pg),
                                        "): ">> \o txt \o <<"...">>
             ELSE <<"Per ">> \o src \o <<" (p.", ToString(pg), "): ">>
                      \o txt \o <<"...">>

\* " ".join((m["text"] or "").lower() for m in matches)
joined_context(ms) ==
    Join([i \in 1..Len(ms) |-> LowerText(ms[i].text)], <<" ">>)

\* Mutant: only the retrieved text is scanned for indicators.
_check_criticality_alignment_context_only(statement, criticality, ms) ==
    LET gamp5_ref == _format_gamp5_ref(ms)
        context == joined_context(ms)
        hit(indicator) == occurs_in(indicator, context)
        triggered == SelectSeq(HIGH_RISK_INDICATORS, hit)
    IN  IF Lower(criticality) \in {"high"} \/ triggered = <<>>
        THEN VerificationFinding("Criticality Alignment", CheckStatus_PASS,
                 <<"Criticality ", criticality>>, gamp5_ref)
        ELSE VerificationFinding("Criticality Alignment", CheckStatus_FAIL,
                 <<"Criticality is ", criticality, ": ">>
                     \o Join(triggered, <<",", " ">>),
                 gamp5_ref)

_check_criticality_alignment(statement, criticality, ms) ==
    LET gamp5_ref == _format_gamp5_ref(ms)
        context == joined_context(ms)
        statement_lower == LowerText(statement)
        hit(indicator) ==
            occurs_in(indicator, context)
                \/ occurs_in(indicator, statement_lower)
        triggered == SelectSeq(HIGH_RISK_INDICATORS, hit)
    IN  IF Lower(criticality) \in {"high"}
        THEN VerificationFinding("Criticality Alignment", CheckStatus_PASS,
                 <<"Criticality is ", criticality,
                   "; no under-classification possible.">>, gamp5_ref)
        ELSE IF triggered # <<>>
        THEN VerificationFinding("Criticality Alignment", CheckStatus_FAIL,
                 <<"Criticality is ", criticality,
                   " but GAMP 5 context contains high-risk indicators: ">>
                     \o Join(triggered, <<",", " ">>)
                     \o <<". Requirement may be under-classified.">>,
                 gamp5_ref)
        ELSE VerificationFinding("Criticality Alignment", CheckStatus_PASS,
                 <<"Criticality ", criticality,
                   " is consistent with the retrieved GAMP 5 guidance.">>,
                 gamp5_ref)

\* Mutant: the score of the first match is taken for the best one.
max_score_first(ms) == ms[1].score

RECURSIVE max_score(_)
\* max(m["score"] for m in matches), scores in hundredths
max_score(ms) ==
    IF Len(ms) = 1 THEN ms[1].score
    ELSE LET rest == max_score(Tail(ms))
         IN  IF ms[1].score >= rest THEN ms[1].score ELSE rest

\* f"{score:.2f}" of a score below 1.00
format_2f(score) ==
    "0." \o (IF score < 10 THEN "0" ELSE "") \o ToString(score)

_check_rationale_relevance(statement, ms) ==
    LET gamp5_ref == _format_gamp5_ref(ms)
    IN  IF ms = <<>>
        THEN VerificationFinding("Rationale Relevance", CheckStatus_FAIL,
                 <<"No GAMP 5 chunks were retrieved for this requirement; ",
                   "the regulatory rationale cannot be substantiated.">>,
                 gamp5_ref)
        ELSE LET best_score == max_score(ms)
             IN  IF best_score < RATIONALE_RELEVANCE_THRESHOLD
                 THEN VerificationFinding("Rationale Relevance",
                          CheckStatus_FAIL,
                          <<"Best GAMP 5 match score is ",
                            format_2f(best_score), ",", " below the ",
                            format_2f(RATIONALE_RELEVANCE_THRESHOLD),
                            " threshold. The cited rationale may not ",
                            "adequately support this requirement.">>,
                          gamp5_ref)
                 ELSE VerificationFinding("Rationale Relevance",
                          CheckStatus_PASS,
                          <<"Best GAMP 5 match score is ",
                            format_2f(best_score), ",", " above the ",
                            format_2f(RATIONALE_RELEVANCE_THRESHOLD),
                            " threshold. Rationale is relevant.">>,
                          gamp5_ref)

\* the first element of a sequence of phrases that occurs in text, or <<>>
first_hit(phrases, text) ==
    LET hit(ph) == occurs_in(ph, text)
        hits == SelectSeq(phrases, hit)
    IN  IF hits = <<>> THEN <<>> ELSE hits[1]

\* Mutant: the scan stops at the first pair that contradicts.
contradictions_found_first_only(statement_lower, context) ==
    LET contradicts(pair) ==
            /\ first_hit(pair.requirement_phrases, statement_lower) # <<>>
            /\ first_hit(pair.gamp5_keywords, context) # <<>>
        pairs == SelectSeq(_CONTRADICTION_PAIRS, contradicts)
    IN  IF pairs = <<>> THEN <<>>
        ELSE <<<<"Requirement contains '">>
                   \o first_hit(pairs[1].requirement_phrases, statement_lower)
                   \o <<"' but GAMP 5 text states '">>
                   \o first_hit(pairs[1].gamp5_keywords, context)
                   \o <<"'">>>>

\* lines 605-623: one message for every pair that contradicts
contradictions_found(statement_lower, context) ==
    LET message(pair) ==
            LET req_hit == first_hit(pair.requirement_phrases,
                                     statement_lower)
                kw == first_hit(pair.gamp5_keywords, context)
            IN  IF req_hit = <<>> \/ kw = <<>> THEN <<>>
                ELSE <<"Requirement contains '">> \o req_hit
                         \o <<"' but GAMP 5 text states '">> \o kw
                         \o <<"'">>
        all == [i \in 1..Len(_CONTRADICTION_PAIRS) |->
                    message(_CONTRADICTION_PAIRS[i])]
        found(msg) == msg # <<>>
    IN  SelectSeq(all, found)

_check_contradictions(statement, ms) ==
    LET gamp5_ref == _format_gamp5_ref(ms)
        statement_lower == LowerText(statement)
        context == joined_context(ms)
        contradictions == contradictions_found(statement_lower, context)
    IN  IF contradictions # <<>>
        THEN VerificationFinding("Contradiction Scan", CheckStatus_FAIL,
                 <<"Direct contradiction(s) detected: ">>
                     \o Join(contradictions, <<";", " ">>) \o <<".">>,
                 gamp5_ref)
        ELSE VerificationFinding("Contradiction Scan", CheckStatus_PASS,
                 <<"No contradictions detected between ",
                   "the requirement and GAMP 5 guidance.">>,
                 gamp5_ref)

\* log_audit_event run to its end by a caller that is alone: the audit file
\* after a call made at clock reading now
log_audit_event_file(file, now, a) ==
    LET timestamp == isoformat(now)
        compliance_impact == resolve_impact(a.action, a.compliance_impact)
        reasoning_hash ==
            _compute_reasoning_hash(timestamp, a.user_id, a.agent_name,
                                    a.action, a.decision_logic,
                                    compliance_impact)
        row == audit_row(timestamp, a, compliance_impact, reasoning_hash)
    IN  open_a_write(_ensure_csv_header(file), csv_writerow(row))

RECURSIVE log_audit_events(_, _, _)
\* successive calls, each at the clock reading given with it
log_audit_events(file, nows, calls) ==
    IF calls = <<>> THEN file
    ELSE log_audit_events(log_audit_event_file(file, nows[1], calls[1]),
                          Tail(nows), Tail(calls))

\* the archive directory after that call, for a call with a valid thought
\* process
log_audit_event_archives(dir, now, a) ==
    LET timestamp == isoformat(now)
        compliance_impact == resolve_impact(a.action, a.compliance_impact)
        reasoning_hash ==
            _compute_reasoning_hash(timestamp, a.user_id, a.agent_name,
                                    a.action, a.decision_logic,
                                    compliance_impact)
    IN  dir_write(dir,
                  archive_filename(timestamp, a.action, reasoning_hash),
                  archive_content(timestamp, a.agent_name, a.action,
                                  a.user_id, compliance_impact,
                                  a.decision_logic, reasoning_hash,
                                  a.thought_process))

\* sorted(new_versions), for the versions of the model
sorted_versions(versions) ==
    LET in_set(v) == v \in versions
    IN  SelectSeq(<<"v1", "v2", "v3">>, in_set)

\* lines 705-709
new_versions(ms, known) ==
    {ms[i].reg_version : i \in {j \in 1..Len(ms) : ms[j].reg_version # ""}}
        \ known

\* lines 717-724: the call made for one new version
version_event(ver) ==
    LogArgs(<<"VerificationAgent">>, <<"REG_VERSION_CHANGE_DETECTED">>,
            <<"SYSTEM">>,
            <<"New regulatory version ", ver,
              " detected during verification">>,
            NoneValue, NoneValue)

\* Mutant: the checks stop at the first failure.
run_checks_short_circuit(statement, criticality, ms) ==
    LET first == _check_criticality_alignment(statement, criticality, ms)
        second == _check_rationale_relevance(statement, ms)
        third == _check_contradictions(statement, ms)
    IN  IF first.status = CheckStatus_FAIL THEN <<first>>
        ELSE IF second.status = CheckStatus_FAIL THEN <<first, second>>
        ELSE <<first, second, third>>

\* lines 728-738
run_checks(statement, criticality, ms) ==
    <<_check_criticality_alignment(statement, criticality, ms),
      _check_rationale_relevance(statement, ms),
      _check_contradictions(statement, ms)>>

\* Mutant: only the first finding decides.
has_failure_first_only(findings) == findings[1].status = CheckStatus_FAIL

\* lines 741-744
has_failure(findings) ==
    \E i \in 1..Len(findings) : findings[i].status = CheckStatus_FAIL

\* Mutant: the verdict record is URS_VERIFIED whatever the findings are.
verdict_event_always_verified(urs_id, criticality, findings) ==
    LogArgs(<<"VerificationAgent">>, <<"URS_VERIFIED">>, <<"SYSTEM">>,
            <<"APPROVED ", urs_id, ": All checks passed (">>
                \o Join([i \in 1..Len(findings) |->
                             <<findings[i].check_name>>], <<",", " ">>)
                \o <<"). Criticality ", criticality,
                     " confirmed against GAMP 5 context.">>,
            NoneValue, NoneValue)

\* lines 746-788: the verdict, and the call that logs it
verdict_of(findings) ==
    IF has_failure(findings) THEN Verdict_REJECTED ELSE Verdict_APPROVED

verdict_event(urs_id, criticality, findings) ==
    LET failed(f) == f.status = CheckStatus_FAIL
        failures == SelectSeq(findings, failed)
        failed_checks ==
            [i \in 1..Len(failures) |-> <<failures[i].check_name>>]
        failed_details ==
            [i \in 1..Len(failures) |->
                <<failures[i].check_name, ": ">> \o failures[i].detail]
        passed_summary ==
            [i \in 1..Len(findings) |-> <<findings[i].check_name>>]
    IN  IF has_failure(findings)
        THEN LogArgs(<<"VerificationAgent">>, <<"COMPLIANCE_EXCEPTION">>,
                     <<"SYSTEM">>,
                     <<"REJECTED ", urs_id, ": Failed checks: ">>
                         \o Join(failed_checks, <<",", " ">>) \o <<". ">>
                         \o Join(failed_details, <<" ", "|", " ">>),
                     NoneValue, NoneValue)
        ELSE LogArgs(<<"VerificationAgent">>, <<"URS_VERIFIED">>,
                     <<"SYSTEM">>,
                     <<"APPROVED ", urs_id, ": All checks passed (">>
                         \o Join(passed_summary, <<",", " ">>)
                         \o <<"). Criticality ", criticality,
                              " confirmed against GAMP 5 context.">>,
                     NoneValue, NoneValue)

(***************************************************************************)
(* Agents/requirement_architect.py: the UR/FR risk and test-strategy       *)
(* matrices.  A dict is a function on its keys; a lookup of a key that is  *)
(* absent raises KeyError.                                                 *)
(***************************************************************************)
RiskAssessmentCategory_GXP_DIRECT ==
    [name |-> "GXP_DIRECT", value |-> "GxP Direct"]
RiskAssessmentCategory_GXP_INDIRECT ==
    [name |-> "GXP_INDIRECT", value |-> "GxP Indirect"]
RiskAssessmentCategory_GXP_NONE ==
    [name |-> "GXP_NONE", value |-> "GxP None"]
RiskAssessmentCategory ==
    {RiskAssessmentCategory_GXP_DIRECT, RiskAssessmentCategory_GXP_INDIRECT,
     RiskAssessmentCategory_GXP_NONE}

ImplementationMethod_OUT_OF_THE_BOX ==
    [name |-> "OUT_OF_THE_BOX", value |-> "Out of the Box"]
ImplementationMethod_CONFIGURED ==
    [name |-> "CONFIGURED", value |-> "Configured"]
ImplementationMethod_CUSTOM == [name |-> "CUSTOM", value |-> "Custom"]
ImplementationMethod ==
    {ImplementationMethod_OUT_OF_THE_BOX, ImplementationMethod_CONFIGURED,
     ImplementationMethod_CUSTOM}

URFRRiskLevel_HIGH == [name |-> "HIGH", value |-> "High"]
URFRRiskLevel_MEDIUM == [name |-> "MEDIUM", value |-> "Medium"]
URFRRiskLevel_LOW == [name |-> "LOW", value |-> "Low"]
URFRRiskLevel == {URFRRiskLevel_HIGH, URFRRiskLevel_MEDIUM, URFRRiskLevel_LOW}

URFRTestStrategy_OQ_UAT == [name |-> "OQ_UAT", value |-> "OQ and/or UAT"]
URFRTestStrategy_INFORMAL == [name |-> "INFORMAL", value |-> "Informal"]
URFRTestStrategy_SUPPLIER_PROVIDED ==
    [name |-> "SUPPLIER_PROVIDED", value |-> "Supplier Provided"]
URFRTestStrategy ==
    {URFRTestStrategy_OQ_UAT, URFRTestStrategy_INFORMAL,
     URFRTestStrategy_SUPPLIER_PROVIDED}

\* a dict literal: the function of its key: value entries
dict(entries) ==
    [key \in {e[1] : e \in entries} |->
        (CHOOSE e \in entries : e[1] = key)[2]]

\* Mutant: the cell of GxP None with Custom is missing.
_RISK_MATRIX_missing_cell ==
    dict({
      <<<<RiskAssessmentCategory_GXP_DIRECT, ImplementationMethod_CUSTOM>>,
        URFRRiskLevel_HIGH>>,
      <<<<RiskAssessmentCategory_GXP_DIRECT, ImplementationMethod_CONFIGURED>>,
        URFRRiskLevel_HIGH>>,
      <<<<RiskAssessmentCategory_GXP_DIRECT,
          ImplementationMethod_OUT_OF_THE_BOX>>, URFRRiskLevel_MEDIUM>>,
      <<<<RiskAssessmentCategory_GXP_INDIRECT, ImplementationMethod_CUSTOM>>,
        URFRRiskLevel_MEDIUM>>,
      <<<<RiskAssessmentCategory_GXP_INDIRECT,
          ImplementationMethod_CONFIGURED>>, URFRRiskLevel_HIGH>>,
      <<<<RiskAssessmentCategory_GXP_INDIRECT,
          ImplementationMethod_OUT_OF_THE_BOX>>, URFRRiskLevel_LOW>>,
      <<<<RiskAssessmentCategory_GXP_NONE, ImplementationMethod_CONFIGURED>>,
        URFRRiskLevel_LOW>>,
      <<<<RiskAssessmentCategory_GXP_NONE,
          ImplementationMethod_OUT_OF_THE_BOX>>, URFRRiskLevel_LOW>>})

_RISK_MATRIX ==
    dict({
      <<<<RiskAssessmentCategory_GXP_DIRECT, ImplementationMethod_CUSTOM>>,
        URFRRiskLevel_HIGH>>,
      <<<<RiskAssessmentCategory_GXP_DIRECT, ImplementationMethod_CONFIGURED>>,
        URFRRiskLevel_HIGH>>,
      <<<<RiskAssessmentCategory_GXP_DIRECT,
          ImplementationMethod_OUT_OF_THE_BOX>>, URFRRiskLevel_MEDIUM>>,
      <<<<RiskAssessmentCategory_GXP_INDIRECT, ImplementationMethod_CUSTOM>>,
        URFRRiskLevel_MEDIUM>>,
      <<<<RiskAssessmentCategory_GXP_INDIRECT,
          ImplementationMethod_CONFIGURED>>, URFRRiskLevel_HIGH>>,
      <<<<RiskAssessmentCategory_GXP_INDIRECT,
          ImplementationMethod_OUT_OF_THE_BOX>>, URFRRiskLevel_LOW>>,
      <<<<RiskAssessmentCategory_GXP_NONE, ImplementationMethod_CUSTOM>>,
        URFRRiskLevel_LOW>>,
      <<<<RiskAssessmentCategory_GXP_NONE, ImplementationMethod_CONFIGURED>>,
        URFRRiskLevel_LOW>>,
      <<<<RiskAssessmentCategory_GXP_NONE,
          ImplementationMethod_OUT_OF_THE_BOX>>, URFRRiskLevel_LOW>>})

_TEST_STRATEGY_MATRIX ==
    dict({
      <<<<URFRRiskLevel_HIGH, ImplementationMethod_OUT_OF_THE_BOX>>,
        URFRTestStrategy_OQ_UAT>>,
      <<<<URFRRiskLevel_HIGH, ImplementationMethod_CONFIGURED>>,
        URFRTestStrategy_OQ_UAT>>,
      <<<<URFRRiskLevel_HIGH, ImplementationMethod_CUSTOM>>,
        URFRTestStrategy_OQ_UAT>>,
      <<<<URFRRiskLevel_MEDIUM, ImplementationMethod_OUT_OF_THE_BOX>>,
        URFRTestStrategy_SUPPLIER_PROVIDED>>,
      <<<<URFRRiskLevel_MEDIUM, ImplementationMethod_CONFIGURED>>,
        URFRTestStrategy_INFORMAL>>,
      <<<<URFRRiskLevel_MEDIUM, ImplementationMethod_CUSTOM>>,
        URFRTestStrategy_INFORMAL>>,
      <<<<URFRRiskLevel_LOW, ImplementationMethod_OUT_OF_THE_BOX>>,
        URFRTestStrategy_SUPPLIER_PROVIDED>>,
      <<<<URFRRiskLevel_LOW, ImplementationMethod_CONFIGURED>>,
        URFRTestStrategy_INFORMAL>>,
      <<<<URFRRiskLevel_LOW, ImplementationMethod_CUSTOM>>,
        URFRTestStrategy_INFORMAL>>})

KeyError == [name |-> "KeyError", value |-> "raised"]

\* Mutant: an absent key yields the entry of some key of the dict.
dict_getitem_defaulting(d, key) ==
    IF key \in DOMAIN d THEN d[key] ELSE d[CHOOSE k \in DOMAIN d : TRUE]

\* d[key]
dict_getitem(d, key) == IF key \in DOMAIN d THEN d[key] ELSE KeyError

_determine_ur_fr_risk_level(ra, im) == dict_getitem(_RISK_MATRIX, <<ra, im>>)

_determine_ur_fr_test_strategy(risk_level, im) ==
    dict_getitem(_TEST_STRATEGY_MATRIX, <<risk_level, im>>)

\* lines 1010-1013 of transform_urs_to_ur_fr: the two lookups in a row
derive_risk_and_test_strategy(ra, im) ==
    LET risk_level == _determine_ur_fr_risk_level(ra, im)
    IN  IF risk_level = KeyError THEN KeyError
        ELSE [risk_level |-> risk_level,
              test_strategy |->
                  _determine_ur_fr_test_strategy(risk_level, im)]

(***************************************************************************)
(* Agents/requirement_architect.py: transform_urs_to_ur_fr.  The URS_ID,   *)
(* the criticality, the category and the two enum values are strings; the  *)
(* requirement statement is a text.                                        *)
(***************************************************************************)
URFR_CATEGORIES ==
    <<"General", "Reporting", "Integration", "Security", "Non-functional">>

_RISK_NOTE ==
    <<"Final Risk Profiling will be decided with stakeholders ",
      "as part of the Risk Assessment process.">>

\* {e.value: e for e in enum}
enum_by_value(enum) == dict({<<e.value, e>> : e \in enum})

ValueError(message) == [name |-> "ValueError", value |-> message]

\* sorted(missing), for the required keys of a URS
sorted_keys(keys) ==
    LET in_set(k) == k \in keys
    IN  SelectSeq(<<"Criticality", "Regulatory_Rationale",
                    "Requirement_Statement", "URS_ID">>, in_set)

RECURSIVE split_on(_, _)
\* text.split(sep) for a one-character sep
split_on(text, sep) ==
    IF \A i \in 1..Len(text) : text[i] # sep THEN <<text>>
    ELSE LET k == CHOOSE i \in 1..Len(text) :
                      text[i] = sep /\ \A j \in 1..(i - 1) : text[j] # sep
         IN  <<SubSeq(text, 1, k - 1)>>
                 \o split_on(SubSeq(text, k + 1, Len(text)), sep)

RECURSIVE rstrip(_, _)
\* text.rstrip(chars)
rstrip(text, chars) ==
    IF text # <<>> /\ text[Len(text)] \in chars
    THEN rstrip(SubSeq(text, 1, Len(text) - 1), chars)
    ELSE text

RECURSIVE strip(_, _)
\* text.strip(chars)
strip(text, chars) ==
    IF text # <<>> /\ Head(text) \in chars THEN strip(Tail(text), chars)
    ELSE rstrip(text, chars)

\* _split_requirement_to_frs on a statement whose words are single-spaced
\* and that holds none of the conjunctions of the re.split pattern, so a
\* segment between semicolons is one clause
_split_requirement_to_frs(statement) ==
    LET text == statement
        segments == split_on(text, ";")
        clauses == [i \in 1..Len(segments) |->
                        strip(strip(segments[i], {" "}), {" ", ".", ","})]
        kept(sp) == sp # <<>>
        parts == SelectSeq(clauses, kept)
    IN  IF parts = <<>> THEN <<strip(text, {" ", "."})>> ELSE parts

_generate_acceptance_criteria(fr_statement, criticality) ==
    LET criteria ==
            <<<<"Given the system is operational", ",", " when ">>
                  \o rstrip(fr_statement, {"."})
                  \o <<",", " then the expected outcome is achieved ",
                       "and an audit trail entry is recorded.">>>>
    IN  IF criticality \in {"High", "Medium"}
        THEN Append(criteria,
                 <<"Given an invalid input", ",", " when ">>
                     \o rstrip(fr_statement, {"."})
                     \o <<" is attempted", ",",
                          " then the system rejects the action ",
                          "and logs the failure.">>)
        ELSE criteria

\* lines 1015-1029: the UR statement
ur_statement_of(statement, role) ==
    LET upper_prefix == <<"The", " ", "system", " ", "shall", " ">>
        lower_prefix == <<"the", " ", "system", " ", "shall", " ">>
        core == IF IsPrefix(upper_prefix, statement)
                   \/ IsPrefix(lower_prefix, statement)
                THEN SubSeq(statement, Len(upper_prefix) + 1, Len(statement))
                ELSE statement
    IN  <<"As a ", role, ",", " there will be ">> \o rstrip(core, {"."})
            \o <<" so that the requirement is fulfilled.">>

\* lines 972-1004: the ValueError the validation raises, or ok
validate_transform_inputs(urs_dict, category, risk_assessment, implementation_method) ==
    LET required_keys == {"URS_ID", "Requirement_Statement", "Criticality",
                          "Regulatory_Rationale"}
        missing == required_keys \ DOMAIN urs_dict
        ra_map == enum_by_value(RiskAssessmentCategory)
        im_map == enum_by_value(ImplementationMethod)
    IN  IF missing # {}
        THEN ValueError(<<"URS dict missing required keys", sorted_keys(missing)>>)
        ELSE IF \A i \in 1..Len(URFR_CATEGORIES) : URFR_CATEGORIES[i] # category
        THEN ValueError(<<"Invalid category", category>>)
        ELSE IF risk_assessment \notin DOMAIN ra_map
        THEN ValueError(<<"Invalid risk_assessment", risk_assessment>>)
        ELSE IF implementation_method \notin DOMAIN im_map
        THEN ValueError(<<"Invalid implementation_method",
                          implementation_method>>)
        ELSE [name |-> "ok", value |-> <<>>]

\* lines 1080-1118: the log_audit_event call that ends the transformation
transform_event(urs_dict, role, category, risk_assessment, implementation_method, risk_level, test_strategy, fr_count) ==
    LogArgs(<<"RequirementArchitect">>, <<"URS_TRANSFORMED_TO_UR_FR">>,
            <<"SYSTEM">>,
            <<"Transformed ", urs_dict["URS_ID"], " to UR/FR. RA=",
              risk_assessment, ",", " IM=", implementation_method, ",",
              " Risk=", risk_level.value, ",", " Test=",
              test_strategy.value, ".">>,
            NoneValue,
            [inputs |->
                 [type |-> "dict",
                  json |-> "{" \o urs_dict["URS_ID"] \o ";" \o urs_dict["Criticality"]
                               \o ";" \o role \o ";" \o category \o ";"
                               \o risk_assessment \o ";"
                               \o implementation_method \o "}"],
             steps |->
                 [type |-> "list",
                  items |->
                      <<"Validated URS contains required keys",
                        "Resolved risk-assessment and implementation enums",
                        "Looked up risk level: " \o risk_level.value,
                        "Looked up test strategy: " \o test_strategy.value,
                        "Split requirement into " \o ToString(fr_count)
                            \o " FR(s)",
                        "Generated acceptance criteria per FR",
                        "Assembled UR/FR output document">>],
             outputs |->
                 [type |-> "dict",
                  json |-> "{UR-1;" \o ToString(fr_count) \o ";"
                               \o risk_level.value \o ";"
                               \o test_strategy.value \o "}"]])

\* transform_urs_to_ur_fr up to its return: the exception it raises, or the
\* document it returns with the audit event it logs last; and the results
\* of the matrix lookups made on the way.  The constant notes of the
\* document are left out.
transform_urs_to_ur_fr(urs_dict, role, category, risk_assessment, implementation_method) ==
    LET invalid == validate_transform_inputs(urs_dict, category, risk_assessment,
                                             implementation_method)
        ra_enum == dict_getitem(enum_by_value(RiskAssessmentCategory),
                                risk_assessment)
        im_enum == dict_getitem(enum_by_value(ImplementationMethod),
                                implementation_method)
        risk_level == _determine_ur_fr_risk_level(ra_enum, im_enum)
        test_strategy == _determine_ur_fr_test_strategy(risk_level, im_enum)
        statement == urs_dict["Requirement_Statement"]
        fr_clauses == _split_requirement_to_frs(statement)
        criticality == urs_dict["Criticality"]
        functional_requirements ==
            [idx \in 1..Len(fr_clauses) |->
                [fr_id |-> "FR-" \o ToString(idx),
                 parent_ur_id |-> "UR-1",
                 statement |-> fr_clauses[idx],
                 acceptance_criteria |->
                     _generate_acceptance_criteria(fr_clauses[idx],
                                                   criticality)]]
    IN  IF invalid.name # "ok"
        THEN [raised |-> invalid, lookups |-> <<>>, event |-> NoneValue]
        ELSE IF KeyError \in {ra_enum, im_enum, risk_level}
        THEN [raised |-> KeyError, lookups |-> <<>>, event |-> NoneValue]
        ELSE IF test_strategy = KeyError
        THEN [raised |-> KeyError, lookups |-> <<risk_level>>,
              event |-> NoneValue]
        ELSE [lookups |-> <<risk_level, test_strategy>>,
              result |->
                  [urs_id |-> urs_dict["URS_ID"],
                   requirement_summary |-> statement,
                   category |-> category,
                   user_requirement |->
                       [ur_id |-> "UR-1",
                        statement |-> ur_statement_of(statement, role),
                        risk_assessment |-> risk_assessment,
                        implementation_method |-> implementation_method,
                        risk_level |-> risk_level.value,
                        test_strategy |-> test_strategy.value,
                        risk_note |-> _RISK_NOTE],
                   functional_requirements |-> functional_requirements],
              event |->
                  transform_event(urs_dict, role, category, risk_assessment,
                                  implementation_method, risk_level,
                                  test_strategy,
                                  Len(functional_requirements))]

MaxMatrixCalls == 3

(***************************************************************************)
(* API/agent_controller.py.  The outcome of a controller method is the     *)
(* sequence of log_audit_event calls it makes, itself and through the      *)
(* agent it delegates to (events), how many of them are made before the    *)
(* delegate is called (logged_before_delegate), and the result it returns  *)
(* or the exception it raises.                                             *)
(***************************************************************************)
\* _log_request: the API_REQUEST event
request_event(endpoint, detail) ==
    LogArgs(<<"AgentController">>, <<"API_REQUEST">>, <<"SYSTEM">>,
            <<"Endpoint: ", endpoint, " ", "|", " ", "Input: ">>
                \o Slice(detail, 80),
            NoneValue, NoneValue)

\* lines 289-310
AgentController_assess_risk(system_criticality, change_type) ==
    [events |->
         <<request_event("assess_risk",
                         <<"criticality=", system_criticality, ",",
                           " type=", change_type>>)>>,
     logged_before_delegate |-> 1,
     result |-> assess_change_request_default(system_criticality,
                                              change_type)]

\* RiskLevel(risk_level): the member with that value, or ValueError
RiskLevel_of(risk_level) ==
    dict_getitem(enum_by_value(RiskLevel), risk_level)

\* DeltaAgent.determine_testing_strategy, delta_agent.py lines 155-175
strategy_event(risk_level, strategy) ==
    LogArgs(<<"DeltaAgent">>, <<"TESTING_STRATEGY_DETERMINED">>,
            <<"SYSTEM">>,
            <<"Risk=", risk_level.value, " -> Strategy=", strategy.value>>,
            NoneValue, NoneValue)

\* lines 316-336
AgentController_determine_testing_strategy(risk_level) ==
    LET request == request_event("determine_testing_strategy",
                                 <<"risk_level=", risk_level>>)
        level == RiskLevel_of(risk_level)
        strategy == get_csa_testing_strategy(level)
    IN  IF level = KeyError
        THEN [events |-> <<request>>, logged_before_delegate |-> 1,
              raised |-> "ValueError"]
        ELSE [events |-> <<request, strategy_event(level, strategy)>>,
              logged_before_delegate |-> 1,
              result |-> strategy.value]

\* VerificationAgent.verify_urs as a function of the URS, the matches the
\* search returns and the versions known: verification_agent.py lines
\* 689-794
verify_urs(urs_dict, ms, known) ==
    LET new == new_versions(ms, known)
        findings == run_checks(urs_dict["Requirement_Statement"],
                               urs_dict["Criticality"], ms)
    IN  IF _validate_urs(urs_dict) # <<>>
        THEN [events |-> <<>>, known |-> known,
              raised |-> "InvalidURSError"]
        ELSE [events |->
                  [i \in 1..Cardinality(new) |->
                       version_event(sorted_versions(new)[i])]
                      \o <<verdict_event(urs_dict["URS_ID"],
                                         urs_dict["Criticality"], findings)>>,
              known |-> known \cup new,
              result |-> [urs_id |-> urs_dict["URS_ID"],
                          verdict |-> verdict_of(findings),
                          findings |-> findings]]

\* lines 221-251
AgentController_verify_urs(urs_dict, ms, known) ==
    LET urs_id == IF "URS_ID" \in DOMAIN urs_dict THEN urs_dict["URS_ID"]
                  ELSE "unknown"
        request == request_event("verify_urs", <<"URS_ID=", urs_id>>)
        delegated == verify_urs(urs_dict, ms, known)
    IN  [delegated EXCEPT !.events = <<request>> \o delegated.events]
            @@ [logged_before_delegate |-> 1]

\* lines 490-521: the pass-through to log_audit_event, called at clock
\* reading now
AgentController_log_event(a, now) ==
    [events |-> <<a>>,
     logged_before_delegate |-> 0,
     result |->
         _compute_reasoning_hash(isoformat(now), a.user_id, a.agent_name,
                                 a.action, a.decision_logic,
                                 resolve_impact(a.action,
                                                a.compliance_impact))]

\* The wrappers of the agents that are not modelled: the endpoint, and the
\* agent and the action of the record the delegate writes when it is done.
DelegatingMethods ==
    {[endpoint |-> "generate_urs", agent_name |-> "RequirementArchitect",
      action |-> "URS_GENERATED"],
     [endpoint |-> "search_knowledge_base",
      agent_name |-> "RequirementArchitect",
      action |-> "SEARCH_KNOWLEDGE_BASE"],
     [endpoint |-> "verify_urs_batch", agent_name |-> "VerificationAgent",
      action |-> "URS_BATCH_VERIFIED"],
     [endpoint |-> "generate_test_script", agent_name |-> "DeltaAgent",
      action |-> "TEST_SCRIPT_GENERATED"],
     [endpoint |-> "generate_test_batch", agent_name |-> "DeltaAgent",
      action |-> "TEST_BATCH_GENERATED"],
     [endpoint |-> "ingest_vendor_document", agent_name |-> "IngestorAgent",
      action |-> "DOCUMENT_INGESTED"],
     [endpoint |-> "analyze_vendor_gaps", agent_name |-> "IngestorAgent",
      action |-> "GAP_ANALYSIS_COMPLETED"],
     [endpoint |-> "generate_vtm", agent_name |-> "AuditorAgent",
      action |-> "VTM_GENERATED"],
     [endpoint |-> "generate_vsr", agent_name |-> "AuditorAgent",
      action |-> "VSR_GENERATED"]}

\* the public methods of AgentController
PublicMethods ==
    {m.endpoint : m \in DelegatingMethods}
        \cup {"verify_urs", "assess_risk", "determine_testing_strategy",
              "log_event"}

\* such a wrapper: _log_request, then the delegate, which completes and
\* writes its record or raises before it has written one
AgentController_delegating(m, detail, completes) ==
    LET request == request_event(m.endpoint, detail)
        done == LogArgs(<<m.agent_name>>, <<m.action>>, <<"SYSTEM">>,
                        <<"done">>, NoneValue, NoneValue)
    IN  IF completes
        THEN [events |-> <<request, done>>, logged_before_delegate |-> 1,
              result |-> m.action]
        ELSE [events |-> <<request>>, logged_before_delegate |-> 1,
              raised |-> "Exception"]

\* the records of the audit file
ledger_records(file) ==
    LET rows == csv_reader(file)
    IN  IF rows = <<>> THEN <<>> ELSE Tail(rows)

MaxApiCalls == 2

(***************************************************************************)
(* API/main.py: the change-request webhook.  The handler has no await, so  *)
(* the event loop runs one request to its answer before the next.          *)
(***************************************************************************)
\* main.py lines 171-193: one line goes to audit_trail.log
main_log_audit_event(log, user_id, action) == Append(log, <<user_id, action>>)

\* the records the webhook writes through AgentController.log_event
webhook_event(action, user_id) ==
    LogArgs(<<"API">>, <<action>>, <<user_id>>, <<>>, NoneValue, NoneValue)

\* integrity_manager.log_audit_event raising OSError, in _ensure_csv_header
\* (line 303) or in the row append (lines 305-309): the audit files it may
\* leave behind
log_audit_event_raising(file, now, a) ==
    LET timestamp == isoformat(now)
        compliance_impact == resolve_impact(a.action, a.compliance_impact)
        reasoning_hash ==
            _compute_reasoning_hash(timestamp, a.user_id, a.agent_name,
                                    a.action, a.decision_logic,
                                    compliance_impact)
        row == audit_row(timestamp, a, compliance_impact, reasoning_hash)
    IN  {IF file = <<>> THEN w ELSE file :
            w \in FailedWrites(_ensure_csv_header(file))}
        \cup {open_a_write(_ensure_csv_header(file), w) :
                 w \in FailedWrites(csv_writerow(row))}

\* what the client gets
ChangeRequestResponse(cr_id, risk_result) ==
    [http_status |-> 200, status |-> "assessed", cr_id |-> cr_id,
     risk_assessment |-> risk_result]

HTTPException(status_code, error_code) ==
    [http_status |-> status_code, detail |-> error_code]

\* an exception that leaves the handler: the server answers 500
InternalServerError == [http_status |-> 500, detail |-> "unhandled"]

\* the operations of the handler that may raise, in the order of the code
LOCAL_RECEIVED == 1
LEDGER_RECEIVED == 2
LEDGER_API_REQUEST == 3
LOCAL_COMPLETED == 4
LEDGER_ASSESSED == 5
LOCAL_FAILED == 6
LEDGER_FAILED == 7

\* main.py lines 213-275, the try block: fault is the operation that raises
\* (0: none).  appends_raised counts the ledger appends that raised.
webhook_try(file, log, now, rq, fault) ==
    LET received == webhook_event("CHANGE_REQUEST_RECEIVED", rq.user_id)
        assessed == webhook_event("CHANGE_REQUEST_ASSESSED", rq.user_id)
        risk == AgentController_assess_risk(rq.system_criticality,
                                            rq.change_type)
        log1 == main_log_audit_event(log, rq.user_id,
                                     "CHANGE_REQUEST_RECEIVED")
        file2 == log_audit_event_file(file, now, received)
        file3 == log_audit_event_file(file2, now, risk.events[1])
        log4 == main_log_audit_event(log1, rq.user_id,
                                     "RISK_ASSESSMENT_COMPLETED")
        file5 == log_audit_event_file(file3, now, assessed)
        raises(f, l, exception, n) ==
            [file |-> f, log |-> l, raised |-> exception,
             appends_raised |-> n, risk_result |-> NoneValue]
    IN  CASE fault = LOCAL_RECEIVED ->
                 {raises(file, log, "AuditLogError", 0)}
          [] fault = LEDGER_RECEIVED ->
                 {raises(f, log1, "OSError", 1) :
                     f \in log_audit_event_raising(file, now, received)}
          [] fault = LEDGER_API_REQUEST ->
                 {raises(f, log1, "OSError", 1) :
                     f \in log_audit_event_raising(file2, now,
                                                   risk.events[1])}
          [] fault = LOCAL_COMPLETED ->
                 {raises(file3, log1, "AuditLogError", 0)}
          [] fault = LEDGER_ASSESSED ->
                 {raises(f, log4, "OSError", 1) :
                     f \in log_audit_event_raising(file3, now, assessed)}
          [] OTHER ->
                 {[file |-> file5, log |-> log4, raised |-> "",
                   appends_raised |-> 0, risk_result |-> risk.result]}

\* Mutant: a failed ledger append is only under-logged, the request is
\* still answered as assessed.
webhook_except_under_logged(o, now, rq, fault) ==
    {[file |-> o.file, log |-> o.log, appends_raised |-> o.appends_raised,
      answer |-> ChangeRequestResponse(rq.cr_id, o.risk_result)]}

\* main.py lines 276-304: the answer after the try block ended as o says;
\* fault is the operation of the second except clause that raises (0: none)
webhook_except(o, now, rq, fault) ==
    LET failed == webhook_event("CHANGE_REQUEST_FAILED", rq.user_id)
        log6 == main_log_audit_event(o.log, rq.user_id,
                                     "CHANGE_REQUEST_FAILED")
        ends(f, l, n, answer) ==
            [file |-> f, log |-> l, appends_raised |-> n,
             answer |-> answer]
    IN  CASE o.raised = "" ->
                 {ends(o.file, o.log, 0,
                       ChangeRequestResponse(rq.cr_id, o.risk_result))}
          [] o.raised = "AuditLogError" ->
                 {ends(o.file, o.log, 0, HTTPException(500, "CSV-002"))}
          [] OTHER ->
                 CASE fault = LOCAL_FAILED ->
                          {ends(o.file, o.log, o.appends_raised,
                                InternalServerError)}
                   [] fault = LEDGER_FAILED ->
                          {ends(f, log6, o.appends_raised + 1,
                                InternalServerError) :
                              f \in log_audit_event_raising(o.file, now,
                                                            failed)}
                   [] OTHER ->
                          {ends(log_audit_event_file(o.file, now, failed),
                                log6, o.appends_raised,
                                HTTPException(500, "CSV-003"))}

\* the handler from the request to the answer
receive_servicenow_change(file, log, now, rq, try_fault, except_fault) ==
    UNION {webhook_except(o, now, rq, except_fault) :
              o \in webhook_try(file, log, now, rq, try_fault)}

MaxRequests == 1

(***************************************************************************)
(* Specifications                                                          *)
(***************************************************************************)
Init ==
    /\ risk_call = [op |-> "none"]
    /\ urs = NoneValue
    /\ matches = <<>>
    /\ verification = NoneValue
    /\ _KNOWN_REG_VERSIONS = {}
    /\ audit_file = <<>>
    /\ archive_dir = {}
    /\ _write_lock = NoThread
    /\ clock = 0
    /\ call = [t \in Threads |-> IdleCall]
    /\ io_errors = 0
    /\ matrix_call = [op |-> "none"]
    /\ matrix_history = <<>>
    /\ transform = NoneValue
    /\ api_call = [method |-> "none"]
    /\ api_calls = 0
    /\ response = NoneValue
    /\ audit_log = <<>>
    /\ requests = 0
    /\ hash_call = [op |-> "none"]
    /\ vcall = [t \in Threads |-> IdleVerification]

\* the audit trail without storage failures
Next ==
    \E t \in Threads :
        \/ LogAuditEvent(t)
        \/ AcquireLock(t)
        \/ EnsureCsvHeader(t)
        \/ WriteRow(t)
        \/ ValidateThoughtProcess(t)
        \/ WriteLogicArchive(t)
        \/ ReleaseLock(t)

Spec == Init /\ [][Next]_vars

\* the audit trail on storage that may fail
NextFaults ==
    \/ Next
    \/ \E t \in Threads :
          \/ EnsureCsvHeaderFails(t)
          \/ WriteRowFails(t)
          \/ WriteLogicArchiveFails(t)

SpecFaults == Init /\ [][NextFaults]_vars

\* the steps of a call that has been made; a thread that can take one is
\* scheduled sooner or later
Proceed(t) ==
    \/ AcquireLock(t)
    \/ EnsureCsvHeader(t)
    \/ WriteRow(t)
    \/ ValidateThoughtProcess(t)
    \/ WriteLogicArchive(t)
    \/ ReleaseLock(t)

\* Proceed(t) is enabled: the call of t is inside the with block, or at
\* line 302 with the lock free
CanProceed(t) ==
    \/ call[t].pc \in {"line303", "line305", "line311", "line319", "unwind"}
    \/ call[t].pc = "line302" /\ _write_lock = NoThread

\* CanProceed(t) is ENABLED <<Proceed(t)>>_vars
CanProceedIsEnabled ==
    \A t \in Threads : CanProceed(t) <=> ENABLED <<Proceed(t)>>_vars

\* WF_vars(Proceed(t)) for every thread, written with CanProceed(t) for the
\* enabling condition
SpecFaultsFair ==
    /\ Init /\ [][NextFaults]_vars
    /\ \A t \in Threads :
           <>[]CanProceed(t) => []<><<Proceed(t)>>_vars

(***************************************************************************)
(* The risk strategist: every call of its two entry points.                *)
(***************************************************************************)
CalculateRiskScore ==
    /\ \E severity \in Severity, occurrence \in Occurrence,
          detectability \in Detectability :
          risk_call' =
              [op |-> "calculate_risk_score",
               severity |-> severity,
               occurrence |-> occurrence,
               detectability |-> detectability,
               result |-> calculate_risk_score(severity, occurrence,
                                               detectability)]
    /\ UNCHANGED <<verify_vars, ledger_vars, matrix_vars, transform_vars, api_vars,
                 hash_vars, thread_vars>>

AssessChangeRequest ==
    /\ \E system_criticality \in CriticalityInputs,
          change_type \in ChangeTypeInputs,
          detectability \in Detectability :
          risk_call' =
              [op |-> "assess_change_request",
               system_criticality |-> system_criticality,
               change_type |-> change_type,
               detectability |-> detectability,
               result |-> assess_change_request(system_criticality,
                                                change_type, detectability)]
    /\ UNCHANGED <<verify_vars, ledger_vars, matrix_vars, transform_vars, api_vars,
                 hash_vars, thread_vars>>

\* assess_change_request(system_criticality, change_type), as
\* AgentController.assess_risk calls it
AssessChangeRequestDefault ==
    /\ \E system_criticality \in CriticalityInputs,
          change_type \in ChangeTypeInputs :
          risk_call' =
              [op |-> "assess_change_request",
               system_criticality |-> system_criticality,
               change_type |-> change_type,
               detectability |-> Detectability_MEDIUM,
               defaulted |-> TRUE,
               result |-> assess_change_request_default(system_criticality,
                                                        change_type)]
    /\ UNCHANGED <<verify_vars, ledger_vars, matrix_vars, transform_vars, api_vars,
                 hash_vars, thread_vars>>

NextRisk ==
    \/ CalculateRiskScore
    \/ AssessChangeRequest
    \/ AssessChangeRequestDefault

SpecRisk == Init /\ [][NextRisk]_vars

(***************************************************************************)
(* The matrices: up to MaxMatrixCalls lookups, in any order.               *)
(***************************************************************************)
MatrixCall(op, args, result) ==
    /\ Len(matrix_history) < MaxMatrixCalls
    /\ matrix_call' = [op |-> op, args |-> args, result |-> result]
    /\ matrix_history' =
           Append(matrix_history,
                  [op |-> op, args |-> args, result |-> result])
    /\ UNCHANGED <<risk_vars, verify_vars, ledger_vars, transform_vars, api_vars,
                 hash_vars, thread_vars>>

DetermineUrFrRiskLevel ==
    \E ra \in RiskAssessmentCategory, im \in ImplementationMethod :
        MatrixCall("_determine_ur_fr_risk_level", <<ra, im>>,
                   _determine_ur_fr_risk_level(ra, im))

DetermineUrFrTestStrategy ==
    \E risk_level \in URFRRiskLevel, im \in ImplementationMethod :
        MatrixCall("_determine_ur_fr_test_strategy", <<risk_level, im>>,
                   _determine_ur_fr_test_strategy(risk_level, im))

DeriveRiskAndTestStrategy ==
    \E ra \in RiskAssessmentCategory, im \in ImplementationMethod :
        MatrixCall("transform_urs_to_ur_fr", <<ra, im>>,
                   derive_risk_and_test_strategy(ra, im))

NextMatrix ==
    \/ DetermineUrFrRiskLevel
    \/ DetermineUrFrTestStrategy
    \/ DeriveRiskAndTestStrategy

SpecMatrix == Init /\ [][NextMatrix]_vars

(***************************************************************************)
(* The UR/FR transformation: one call of transform_urs_to_ur_fr on every   *)
(* input of the model, and one direct call of a lookup helper with any two *)
(* objects (the helpers are static methods and check no types).            *)
(***************************************************************************)
TransformUrsInputs ==
    {[URS_ID |-> "URS-7.1",
      Requirement_Statement |->
          <<"The", " ", "system", " ", "shall", " ", "log", " ", "events",
            ";", " ", "the", " ", "system", " ", "shall", " ", "alert", " ",
            "users", ".">>,
      Criticality |-> "High", Regulatory_Rationale |-> <<"Per GAMP 5">>],
     [URS_ID |-> "URS-7.2",
      Requirement_Statement |->
          <<"the", " ", "system", " ", "shall", " ", "track", " ",
            "temperature">>,
      Criticality |-> "Low", Regulatory_Rationale |-> <<"Per GAMP 5">>],
     [URS_ID |-> "URS-7.3",
      Requirement_Statement |-> <<"track", " ", "temperature">>,
      Regulatory_Rationale |-> <<"Per GAMP 5">>]}

CategoryInputs == {"General", "Security", "Performance"}

RiskAssessmentInputs ==
    {"GxP Direct", "GxP Indirect", "GxP None", "gxp direct", "High", ""}

ImplementationMethodInputs ==
    {"Out of the Box", "Configured", "Custom", "custom", "COTS"}

LookupObjects ==
    RiskAssessmentCategory \cup ImplementationMethod \cup URFRRiskLevel
        \cup {Str(<<"GxP Direct">>), Str(<<"Custom">>), NoneValue}

\* lines 939-1120: the whole call, by a caller that is alone
TransformUrsToUrFr ==
    /\ transform = NoneValue
    /\ \E urs_dict \in TransformUrsInputs, category \in CategoryInputs,
          risk_assessment \in RiskAssessmentInputs,
          implementation_method \in ImplementationMethodInputs :
          LET outcome == transform_urs_to_ur_fr(urs_dict, "User", category,
                                                risk_assessment,
                                                implementation_method)
          IN  /\ transform' =
                     [args |-> [urs |-> urs_dict, role |-> "User",
                                category |-> category,
                                risk_assessment |-> risk_assessment,
                                implementation_method |->
                                    implementation_method],
                      outcome |-> outcome]
              /\ IF "raised" \in DOMAIN outcome
                 THEN UNCHANGED <<audit_file, archive_dir>>
                 ELSE /\ audit_file' =
                            log_audit_event_file(audit_file, clock,
                                                 outcome.event)
                      /\ archive_dir' =
                            log_audit_event_archives(archive_dir, clock,
                                                     outcome.event)
    /\ UNCHANGED <<_write_lock, clock, call, io_errors>>
    /\ UNCHANGED <<risk_vars, verify_vars, matrix_vars, api_vars,
                 hash_vars, thread_vars>>

\* a direct call of _determine_ur_fr_risk_level
CallDetermineUrFrRiskLevel ==
    /\ matrix_call.op = "none"
    /\ \E ra \in LookupObjects, im \in LookupObjects :
          matrix_call' = [op |-> "_determine_ur_fr_risk_level",
                          args |-> <<ra, im>>,
                          result |-> _determine_ur_fr_risk_level(ra, im)]
    /\ UNCHANGED <<risk_vars, verify_vars, ledger_vars, matrix_history,
                   transform_vars, api_vars,
                 hash_vars, thread_vars>>

\* a direct call of _determine_ur_fr_test_strategy
CallDetermineUrFrTestStrategy ==
    /\ matrix_call.op = "none"
    /\ \E risk_level \in LookupObjects, im \in LookupObjects :
          matrix_call' = [op |-> "_determine_ur_fr_test_strategy",
                          args |-> <<risk_level, im>>,
                          result |->
                              _determine_ur_fr_test_strategy(risk_level, im)]
    /\ UNCHANGED <<risk_vars, verify_vars, ledger_vars, matrix_history,
                   transform_vars, api_vars,
                 hash_vars, thread_vars>>

NextTransform ==
    \/ TransformUrsToUrFr
    \/ CallDetermineUrFrRiskLevel
    \/ CallDetermineUrFrTestStrategy

SpecTransform == Init /\ [][NextTransform]_vars

(***************************************************************************)
(* verify_urs: one call, on every URS and every retrieval result of the    *)
(* model, with any set of regulatory versions already known.               *)
(***************************************************************************)
Statements ==
    {Phrase(<<"the", "system", "shall", "track", "temperature">>),
     Phrase(<<"Skip", "Validation", "of", "reports">>),
     Phrase(<<"skip", "testing", "and", "no", "audit", "trail">>),
     Phrase(<<"record", "Patient", "data">>)}

CriticalityLabels == {"High", "HIGH", "Medium", "Low", "Critical"}

Passage(text, source_document, page_number, score, reg_version) ==
    [text |-> text, source_document |-> source_document,
     page_number |-> page_number, score |-> score,
     reg_version |-> reg_version]

Passages ==
    {Passage(Phrase(<<"Validation", "is", "required">>), <<"GAMP5.pdf">>,
             12, 80, "v1"),
     Passage(Phrase(<<"Patient", "safety", "first">>), <<"CSA.pdf">>,
             3, RATIONALE_RELEVANCE_THRESHOLD - 1, "v2"),
     Passage(Phrase(<<"Testing", "and", "audit", "trail">>), <<>>,
             0, RATIONALE_RELEVANCE_THRESHOLD, ""),
     Passage(Phrase(<<"general", "guidance">>), <<"GAMP5.pdf">>,
             7, 50, "v1"),
     Passage(<<>>, <<>>, 0, VERIFICATION_MIN_SCORE, "")}

MatchLists ==
    UNION {[1..n -> Passages] : n \in 0..MaxMatches}

UrsInputs ==
    {[URS_ID |-> "URS-7.1", Requirement_Statement |-> st,
      Criticality |-> c, Regulatory_Rationale |-> <<"Per GAMP 5">>] :
         st \in Statements, c \in CriticalityLabels}
      \cup {[URS_ID |-> "URS-7.2",
             Requirement_Statement |-> Phrase(<<"record", "Patient", "data">>),
             Regulatory_Rationale |-> <<"Per GAMP 5">>],
            [URS_ID |-> "URS-7.3", Criticality |-> "Low"]}

InitVerify ==
    /\ risk_call = [op |-> "none"]
    /\ urs \in UrsInputs
    /\ matches \in MatchLists
    /\ verification = NoneValue
    /\ _KNOWN_REG_VERSIONS \in SUBSET {"v1", "v2"}
    /\ audit_file = <<>>
    /\ archive_dir = {}
    /\ _write_lock = NoThread
    /\ clock = 0
    /\ call = [t \in Threads |-> IdleCall]
    /\ io_errors = 0
    /\ matrix_call = [op |-> "none"]
    /\ matrix_history = <<>>
    /\ transform = NoneValue
    /\ api_call = [method |-> "none"]
    /\ api_calls = 0
    /\ response = NoneValue
    /\ audit_log = <<>>
    /\ requests = 0
    /\ hash_call = [op |-> "none"]
    /\ vcall = [t \in Threads |-> IdleVerification]

\* line 689 raising InvalidURSError
VerifyUrsInvalid ==
    /\ verification = NoneValue
    /\ _validate_urs(urs) # <<>>
    /\ verification' = [raised |-> "InvalidURSError",
                        missing_fields |-> _validate_urs(urs)]
    /\ UNCHANGED <<urs, matches, _KNOWN_REG_VERSIONS>>
    /\ UNCHANGED <<risk_vars, ledger_vars, matrix_vars, transform_vars, api_vars,
                 hash_vars, thread_vars>>

\* lines 689-794; the clock may or may not move between its audit records
VerifyUrs ==
    /\ verification = NoneValue
    /\ _validate_urs(urs) = <<>>
    /\ LET urs_id == urs["URS_ID"]
           statement == urs["Requirement_Statement"]
           criticality == urs["Criticality"]
           new == new_versions(matches, _KNOWN_REG_VERSIONS)
           findings == run_checks(statement, criticality, matches)
           events ==
               [i \in 1..Cardinality(new) |->
                    version_event(sorted_versions(new)[i])]
                   \o <<verdict_event(urs_id, criticality, findings)>>
       IN  /\ _KNOWN_REG_VERSIONS' = _KNOWN_REG_VERSIONS \cup new
           /\ \E d \in {0, 1} :
                 /\ clock' = clock + d * (Len(events) - 1)
                 /\ audit_file' =
                        log_audit_events(audit_file,
                            [i \in 1..Len(events) |-> clock + d * (i - 1)],
                            events)
           /\ verification' = [urs_id |-> urs_id,
                               verdict |-> verdict_of(findings),
                               findings |-> findings]
    /\ UNCHANGED <<urs, matches>>
    /\ UNCHANGED <<risk_call, archive_dir, _write_lock, call, io_errors>>
    /\ UNCHANGED <<matrix_vars, transform_vars, api_vars,
                 hash_vars, thread_vars>>

NextVerify == VerifyUrs \/ VerifyUrsInvalid

SpecVerify == InitVerify /\ [][NextVerify]_vars

(***************************************************************************)
(* The controller: up to MaxApiCalls calls of its public methods, one      *)
(* after the other.  rows_before is the number of records in the audit     *)
(* file when the call is made.                                             *)
(***************************************************************************)
ApiUrsInputs ==
    {[URS_ID |-> "URS-7.1",
      Requirement_Statement |->
          Phrase(<<"the", "system", "shall", "track", "temperature">>),
      Criticality |-> "High", Regulatory_Rationale |-> <<"Per GAMP 5">>],
     [URS_ID |-> "URS-7.2",
      Requirement_Statement |-> Phrase(<<"record", "Patient", "data">>),
      Criticality |-> "Low", Regulatory_Rationale |-> <<"Per GAMP 5">>],
     [Criticality |-> "Low"]}

ApiMatchLists ==
    {<<>>,
     <<Passage(Phrase(<<"general", "guidance">>), <<"GAMP5.pdf">>, 7, 50,
               "v1")>>}

ApiLogEvents ==
    {LogArgs(<<"API">>, <<"CHANGE_REQUEST_RECEIVED">>, <<"jdoe">>, <<>>,
             NoneValue, NoneValue),
     LogArgs(<<"API">>, <<"CUSTOM_EVENT">>, <<"SYSTEM">>,
             <<"a", "|", "b">>, Str(<<"Change Control">>), NoneValue)}

\* a controller call with this outcome is made and runs to its end
ApiCall(method, args, outcome) ==
    /\ api_calls < MaxApiCalls
    /\ api_calls' = api_calls + 1
    /\ api_call' = [method |-> method, args |-> args,
                    rows_before |-> Len(ledger_records(audit_file)),
                    outcome |-> outcome]
    /\ audit_file' =
           log_audit_events(audit_file,
                            [i \in 1..Len(outcome.events) |-> clock],
                            outcome.events)
    /\ clock' \in {clock, clock + 1}
    /\ UNCHANGED <<archive_dir, _write_lock, call, io_errors>>
    /\ UNCHANGED <<urs, matches, verification, response, audit_log,
                   requests, hash_vars, thread_vars>>
    /\ UNCHANGED <<risk_vars, matrix_vars, transform_vars>>

AssessRisk ==
    /\ \E system_criticality \in {"high", "Medium", "urgent"},
          change_type \in {"emergency", "routine"} :
          ApiCall("assess_risk",
                  [system_criticality |-> system_criticality,
                   change_type |-> change_type],
                  AgentController_assess_risk(system_criticality,
                                              change_type))
    /\ UNCHANGED _KNOWN_REG_VERSIONS

DetermineTestingStrategy ==
    /\ \E risk_level \in {"Low", "Medium", "High", "low"} :
          ApiCall("determine_testing_strategy", [risk_level |-> risk_level],
                  AgentController_determine_testing_strategy(risk_level))
    /\ UNCHANGED _KNOWN_REG_VERSIONS

ControllerVerifyUrs ==
    \E urs_dict \in ApiUrsInputs, ms \in ApiMatchLists :
        LET outcome == AgentController_verify_urs(urs_dict, ms,
                                                  _KNOWN_REG_VERSIONS)
        IN  /\ ApiCall("verify_urs", [urs_dict |-> urs_dict, matches |-> ms],
                       outcome)
            /\ _KNOWN_REG_VERSIONS' = outcome.known

LogEvent ==
    /\ \E a \in ApiLogEvents :
          ApiCall("log_event", a, AgentController_log_event(a, clock))
    /\ UNCHANGED _KNOWN_REG_VERSIONS

DelegatingCall ==
    /\ \E m \in DelegatingMethods, completes \in BOOLEAN :
          ApiCall(m.endpoint, [detail |-> <<"input">>],
                  AgentController_delegating(m, <<"input">>, completes))
    /\ UNCHANGED _KNOWN_REG_VERSIONS

NextController ==
    \/ AssessRisk
    \/ DetermineTestingStrategy
    \/ ControllerVerifyUrs
    \/ LogEvent
    \/ DelegatingCall

SpecController == Init /\ [][NextController]_vars

(***************************************************************************)
(* The webhook: up to MaxRequests change requests, on storage and a log    *)
(* file that may fail under any operation of the handler.  The audit file  *)
(* outlives the process: the server starts without one, or with one that   *)
(* an earlier append has left, whole or torn.                              *)
(***************************************************************************)
LedgersLeftBehind ==
    LET earlier == webhook_event("CHANGE_REQUEST_RECEIVED", "SYSTEM")
    IN  {<<>>, log_audit_event_file(<<>>, 0, earlier)}
            \cup log_audit_event_raising(<<>>, 0, earlier)

InitWebhook ==
    /\ risk_call = [op |-> "none"]
    /\ urs = NoneValue
    /\ matches = <<>>
    /\ verification = NoneValue
    /\ _KNOWN_REG_VERSIONS = {}
    /\ audit_file \in LedgersLeftBehind
    /\ archive_dir = {}
    /\ _write_lock = NoThread
    /\ clock = 1
    /\ call = [t \in Threads |-> IdleCall]
    /\ io_errors = 0
    /\ matrix_call = [op |-> "none"]
    /\ matrix_history = <<>>
    /\ transform = NoneValue
    /\ api_call = [method |-> "none"]
    /\ api_calls = 0
    /\ response = NoneValue
    /\ audit_log = <<>>
    /\ requests = 0
    /\ hash_call = [op |-> "none"]
    /\ vcall = [t \in Threads |-> IdleVerification]

ChangeRequests ==
    [cr_id : {"CHG0012345"}, user_id : {"SYSTEM", "jdoe"},
     system_criticality : {"high", "minor"}, change_type : {"normal"}]

ReceiveServicenowChange ==
    /\ requests < MaxRequests
    /\ requests' = requests + 1
    /\ \E rq \in ChangeRequests,
          try_fault \in {0, LOCAL_RECEIVED, LEDGER_RECEIVED,
                         LEDGER_API_REQUEST, LOCAL_COMPLETED,
                         LEDGER_ASSESSED},
          except_fault \in {0, LOCAL_FAILED, LEDGER_FAILED} :
          \E end \in receive_servicenow_change(audit_file, audit_log, clock,
                                               rq, try_fault,
                                               except_fault) :
              /\ audit_file' = end.file
              /\ audit_log' = end.log
              /\ response' = [request |-> rq, file_before |-> audit_file,
                              log_before |-> audit_log,
                              appends_raised |-> end.appends_raised,
                              answer |-> end.answer]
    /\ clock' = clock + 1
    /\ UNCHANGED <<archive_dir, _write_lock, call, io_errors>>
    /\ UNCHANGED <<risk_vars, verify_vars, matrix_vars, transform_vars>>
    /\ UNCHANGED <<api_call, api_calls, hash_vars, thread_vars>>

NextWebhook == ReceiveServicenowChange

SpecWebhook == InitWebhook /\ [][NextWebhook]_vars

(***************************************************************************)
(* The reasoning hash as a function: it is computed for two records whose  *)
(* fields are free text, with and without the character "|".               *)
(***************************************************************************)
HashedRecords ==
    [timestamp : {isoformat(0)},
     user_id : {<<"jdoe">>},
     agent_name : {<<"A">>, <<"A", "|", "B">>, <<"API">>},
     action : {<<"C">>, <<"B", "|", "C">>, <<"CUSTOM_EVENT">>},
     decision_logic : {<<>>, <<"a", "|", "b">>},
     compliance_impact : {<<"Change Control">>}]

reasoning_hash_of(r) ==
    _compute_reasoning_hash(r.timestamp, r.user_id, r.agent_name, r.action,
                            r.decision_logic, r.compliance_impact)

ComputeReasoningHash ==
    /\ \E first \in HashedRecords, second \in HashedRecords :
          hash_call' = [op |-> "_compute_reasoning_hash",
                        first |-> first, second |-> second,
                        hashes |-> <<reasoning_hash_of(first),
                                     reasoning_hash_of(second)>>]
    /\ UNCHANGED <<risk_vars, verify_vars, ledger_vars, matrix_vars,
                   transform_vars, api_vars, thread_vars>>

NextHash == ComputeReasoningHash

SpecHash == Init /\ [][NextHash]_vars

(***************************************************************************)
(* verify_urs called by the threads of one process.  No lock protects the  *)
(* module-level set: between the read of line 709 and the update of line   *)
(* 725 a thread appends to the audit file, where it may have to wait for   *)
(* the write lock, and other threads run.  Each append is taken as a       *)
(* whole.                                                                  *)
(***************************************************************************)
ThreadUrs ==
    [URS_ID |-> "URS-7.1",
     Requirement_Statement |->
         Phrase(<<"the", "system", "shall", "track", "temperature">>),
     Criticality |-> "Low", Regulatory_Rationale |-> <<"Per GAMP 5">>]

ThreadPassage(reg_version) ==
    Passage(Phrase(<<"general", "guidance">>), <<"GAMP5.pdf">>, 7, 50,
            reg_version)

ThreadMatchLists ==
    {<<>>, <<ThreadPassage("v1")>>, <<ThreadPassage("")>>,
     <<ThreadPassage("v1"), ThreadPassage("v2")>>}

\* lines 689-701: the URS is valid and the passages are retrieved.  Threads
\* are numbered in the order in which they make their call.
VerifyUrsCalled(t) ==
    /\ vcall[t].pc = "idle"
    /\ \A u \in Threads : u < t => vcall[u].pc # "idle"
    /\ \E ms \in ThreadMatchLists :
          vcall' = [vcall EXCEPT ![t] =
                       [IdleVerification EXCEPT !.pc = "line705",
                                                !.urs = ThreadUrs,
                                                !.matches = ms]]
    /\ UNCHANGED <<verify_vars, ledger_vars>>
    /\ UNCHANGED <<risk_vars, matrix_vars, transform_vars, api_vars,
                   hash_vars>>

\* lines 705-710: the versions of the passages that are not known
DetectNewVersions(t) ==
    /\ vcall[t].pc = "line705"
    /\ LET new == new_versions(vcall[t].matches, _KNOWN_REG_VERSIONS)
       IN  vcall' = [vcall EXCEPT
                        ![t].new_versions = new,
                        ![t].pending = sorted_versions(new),
                        ![t].pc = IF new = {} THEN "line728"
                                  ELSE "line711"]
    /\ UNCHANGED <<verify_vars, ledger_vars>>
    /\ UNCHANGED <<risk_vars, matrix_vars, transform_vars, api_vars,
                   hash_vars>>

\* lines 711-724: one turn of the loop, the record of one new version
LogVersionChange(t) ==
    /\ vcall[t].pc = "line711"
    /\ clock' \in {clock, clock + 1}
    /\ audit_file' =
           log_audit_event_file(audit_file, clock',
                                version_event(Head(vcall[t].pending)))
    /\ vcall' = [vcall EXCEPT
                    ![t].pending = Tail(vcall[t].pending),
                    ![t].pc = IF Tail(vcall[t].pending) = <<>>
                              THEN "line725" ELSE "line711"]
    /\ UNCHANGED <<verify_vars, archive_dir, _write_lock, call, io_errors>>
    /\ UNCHANGED <<risk_vars, matrix_vars, transform_vars, api_vars,
                   hash_vars>>

\* line 725: _KNOWN_REG_VERSIONS |= new_versions
UpdateKnownVersions(t) ==
    /\ vcall[t].pc = "line725"
    /\ _KNOWN_REG_VERSIONS' = _KNOWN_REG_VERSIONS \cup vcall[t].new_versions
    /\ vcall' = [vcall EXCEPT ![t].pc = "line728"]
    /\ UNCHANGED <<urs, matches, verification, ledger_vars>>
    /\ UNCHANGED <<risk_vars, matrix_vars, transform_vars, api_vars,
                   hash_vars>>

\* lines 728-794: the checks, the record of the verdict, the return
CompleteVerification(t) ==
    /\ vcall[t].pc = "line728"
    /\ clock' \in {clock, clock + 1}
    /\ LET u == vcall[t].urs
           findings == run_checks(u["Requirement_Statement"],
                                  u["Criticality"], vcall[t].matches)
       IN  audit_file' =
               log_audit_event_file(audit_file, clock',
                                    verdict_event(u["URS_ID"],
                                                  u["Criticality"],
                                                  findings))
    /\ vcall' = [vcall EXCEPT ![t].pc = "returned"]
    /\ UNCHANGED <<verify_vars, archive_dir, _write_lock, call, io_errors>>
    /\ UNCHANGED <<risk_vars, matrix_vars, transform_vars, api_vars,
                   hash_vars>>

NextVerifyThreads ==
    \E t \in Threads :
        \/ VerifyUrsCalled(t)
        \/ DetectNewVersions(t)
        \/ LogVersionChange(t)
        \/ UpdateKnownVersions(t)
        \/ CompleteVerification(t)

SpecVerifyThreads == Init /\ [][NextVerifyThreads]_vars

(***************************************************************************)
(* C1  Patient-safety override: calculate_risk_score with severity HIGH    *)
(* returns risk level High for every occurrence and detectability, and     *)
(* assess_change_request then reports risk_level High with Rigorous        *)
(* Scripted Testing.                                                       *)
(***************************************************************************)
C1_PatientSafetyOverride ==
    /\ (risk_call.op = "calculate_risk_score"
            /\ risk_call.severity.name = "HIGH")
          => risk_call.result[2].value = "High"
    /\ (risk_call.op = "assess_change_request"
            /\ risk_call.result.severity = "HIGH")
          => /\ risk_call.result.risk_level = "High"
             /\ risk_call.result.testing_strategy
                    = "Rigorous Scripted Testing"

\* Scenario A: the score 12 alone would give Medium
C1_Witness ==
    /\ risk_call.op = "assess_change_request"
    /\ risk_call.result.severity = "HIGH"
    /\ risk_call.result.occurrence = "OCCASIONAL"
    /\ risk_call.result.detectability = "MEDIUM"
    /\ risk_call.result.rpn = 12
    /\ risk_call.result.risk_level = "High"

(***************************************************************************)
(* C2  For every VerificationResult returned by verify_urs the verdict is  *)
(* Rejected if and only if at least one finding has status Fail, and       *)
(* Approved if and only if all findings have status Pass.                  *)
(***************************************************************************)
Returned == "verdict" \in DOMAIN verification

C2_VerdictIffAnyFail ==
    Returned =>
        /\ verification.verdict \in {"Approved", "Rejected"}
        /\ verification.verdict = "Rejected"
              <=> \E i \in 1..Len(verification.findings) :
                      verification.findings[i].status = "Fail"
        /\ verification.verdict = "Approved"
              <=> \A i \in 1..Len(verification.findings) :
                      verification.findings[i].status = "Pass"

\* rejected by the contradiction scan alone
C2_Witness ==
    /\ Returned
    /\ verification.verdict = "Rejected"
    /\ verification.findings[1].status = "Pass"
    /\ verification.findings[2].status = "Pass"
    /\ verification.findings[3].status = "Fail"

(***************************************************************************)
(* The ledger as its reader sees it, and the calls behind its rows.        *)
(***************************************************************************)
LedgerRows == csv_reader(audit_file)

\* the record rows: everything after the first row
rows_after_first(rows) == IF rows = <<>> THEN <<>> ELSE Tail(rows)

RecordRows == rows_after_first(LedgerRows)

Occurrences(rows, row) == Cardinality({i \in 1..Len(rows) : rows[i] = row})

\* every call made so far has returned or raised
Quiescent == \A t \in Threads : call[t].pc \in {"idle", "returned", "raised"}

HasReturned(t) == call[t].pc = "returned"

\* the clock reading a timestamp was formatted from
clock_reading(timestamp) ==
    CHOOSE k \in 0..NumThreads : isoformat(k) = timestamp

\* the hash recomputed from the stored fields of a row
stored_fields_hash(row) ==
    _compute_reasoning_hash(row[1], row[2], row[3], row[4], row[5], row[7])

(***************************************************************************)
(* C3  Every record row of the ledger carries, as Reasoning_Hash, the      *)
(* SHA-256 of its own stored Timestamp, User_ID, Agent_Name,               *)
(* Action_Performed, Decision_Logic and Compliance_Impact, the impact      *)
(* being the resolved one and not the caller's None; the hash returned to  *)
(* the caller is the stored one; no step changes the hash of a row once    *)
(* it is stored.                                                           *)
(***************************************************************************)
C3_Stored ==
    LET rows == RecordRows
    IN  /\ \A i \in 1..Len(rows) :
              /\ Len(rows[i]) = Len(CSV_COLUMNS)
              /\ rows[i][6] = stored_fields_hash(rows[i])
        /\ \A t \in Threads :
              HasReturned(t) =>
                  \E i \in 1..Len(rows) :
                      LET row == rows[i]
                          a == call[t].args
                      IN  /\ <<row[1], row[2], row[3], row[4], row[5]>> =
                                <<call[t].timestamp, a.user_id, a.agent_name,
                                  a.action, a.decision_logic>>
                          /\ row[6] = call[t].returned
                          /\ row[7] = IF a.compliance_impact = NoneValue
                                      THEN _IMPACT_MAP_get(a.action)
                                      ELSE a.compliance_impact.value

C3_NeverRewritten ==
    LET rows == RecordRows
        rows_after == rows_after_first(csv_reader(audit_file'))
    IN  \/ audit_file' = audit_file
        \/ \A i \in 1..Len(rows) :
               /\ i <= Len(rows_after)
               /\ rows_after[i][6] = rows[i][6]

C3_HashOfStoredFields == []C3_Stored /\ [][C3_NeverRewritten]_vars

\* two calls returned, one of them with a comma and quotes in its logic and
\* no impact given
C3_Witness ==
    /\ \A t \in Threads : HasReturned(t)
    /\ \E t \in Threads :
          /\ call[t].args.compliance_impact = NoneValue
          /\ Contains(call[t].args.decision_logic, {DELIMITER, QUOTECHAR})
    /\ Len(RecordRows) = NumThreads

(***************************************************************************)
(* C4  The ledger is append-only: over every step of every call, whether   *)
(* the call goes on to return or to raise, the content of the ledger       *)
(* before the step is a prefix of its content after it.                    *)
(***************************************************************************)
C4_AppendOnly == [][IsPrefix(audit_file, audit_file')]_vars

\* after one call that raised on a storage failure and one that returned,
\* header and record row are in the ledger
C4_Witness ==
    /\ \E t \in Threads : call[t].raised = "OSError" /\ call[t].pc = "raised"
    /\ \E t \in Threads : HasReturned(t)
    /\ LET rows == LedgerRows
       IN  Len(rows) >= 2 /\ rows[1] = CSV_COLUMNS

(***************************************************************************)
(* C5  A call whose reasoning chain lacks inputs, steps or outputs, or     *)
(* whose steps is not a list, raises before anything is written: the       *)
(* ledger holds no row of that call and no archive file exists for it.     *)
(***************************************************************************)
\* the calls that stored row and have not raised exception
calls_behind(row, exception) ==
    {t \in Threads : /\ call[t].pc # "idle"
                     /\ call[t].row = row
                     /\ call[t].raised # exception}

\* no record row is there on account of a call that raised exception
NoRowOfCallThatRaised(exception) ==
    LET rows == RecordRows
    IN  \A i \in 1..Len(rows) :
            Occurrences(rows, rows[i])
                <= Cardinality(calls_behind(rows[i], exception))

C5_MalformedChainWritesNothing ==
    /\ NoRowOfCallThatRaised("ValueError")
    /\ \A t \in Threads :
          call[t].raised = "ValueError" =>
              archive_filename(call[t].timestamp, call[t].args.action,
                               call[t].reasoning_hash)
                  \notin dir_names(archive_dir)

(***************************************************************************)
(* C6  The timestamp of a call is taken while the lock is held, so the     *)
(* record rows of the ledger are in non-decreasing timestamp order under   *)
(* every interleaving of concurrent calls.                                 *)
(***************************************************************************)
C6_RowsInTimestampOrder ==
    LET rows == RecordRows
    IN  \A i, j \in 1..Len(rows) :
            i < j => clock_reading(rows[i][1]) <= clock_reading(rows[j][1])

(***************************************************************************)
(* C7  Under every interleaving of concurrent calls on a ledger that was   *)
(* missing or empty, once the calls are over the ledger is one header row  *)
(* of the seven column names followed by exactly one complete record row   *)
(* for each call that returned, and nothing else.                          *)
(***************************************************************************)
returned_with(row) == {t \in Threads : HasReturned(t) /\ call[t].row = row}

C7_HeaderThenOneRowPerReturnedCall ==
    (Quiescent /\ \E t \in Threads : call[t].pc # "idle") =>
        LET ledger == LedgerRows
            rows == rows_after_first(ledger)
        IN  /\ ledger # <<>>
            /\ ledger[1] = CSV_COLUMNS
            /\ \A i \in 1..Len(rows) :
                  Occurrences(rows, rows[i])
                      = Cardinality(returned_with(rows[i]))
            /\ \A t \in Threads :
                  HasReturned(t) => Occurrences(rows, call[t].row) >= 1

(***************************************************************************)
(* C8  A storage failure during a call leaves no partial state of its      *)
(* record: the ledger holds no row, whole or torn, of a call that raised   *)
(* OSError, and no archive file of it exists.                              *)
(***************************************************************************)
C8_FailureLeavesNoPartialState ==
    /\ NoRowOfCallThatRaised("OSError")
    /\ \A f \in archive_dir : f.content # TruncatedArchive

(***************************************************************************)
(* C9  The hash depends on the timestamp and on the decision logic, each   *)
(* by itself: two calls that agree on the other five hashed fields and     *)
(* differ in one of these have different hashes; the hash recomputed from  *)
(* a stored row with another decision logic is not the stored hash; two    *)
(* calls with the same arguments at different timestamps return different  *)
(* hashes.                                                                 *)
(***************************************************************************)
same_but_timestamp(c, d) ==
    /\ c.timestamp # d.timestamp
    /\ <<c.args.user_id, c.args.agent_name, c.args.action,
         c.args.decision_logic, c.compliance_impact>> =
       <<d.args.user_id, d.args.agent_name, d.args.action,
         d.args.decision_logic, d.compliance_impact>>

same_but_decision_logic(c, d) ==
    /\ c.args.decision_logic # d.args.decision_logic
    /\ <<c.timestamp, c.args.user_id, c.args.agent_name, c.args.action,
         c.compliance_impact>> =
       <<d.timestamp, d.args.user_id, d.args.agent_name, d.args.action,
         d.compliance_impact>>

C9_HashDependsOnEachField ==
    /\ \A t, u \in Threads :
          (/\ call[t].pc # "idle"
           /\ call[u].pc # "idle"
           /\ \/ same_but_timestamp(call[t], call[u])
              \/ same_but_decision_logic(call[t], call[u]))
              => call[t].reasoning_hash # call[u].reasoning_hash
    /\ LET rows == RecordRows
       IN  \A i \in 1..Len(rows) :
               \A a \in LogCalls :
                   LET row == rows[i]
                   IN  a.decision_logic # row[5] =>
                           _compute_reasoning_hash(row[1], row[2], row[3],
                                                   row[4], a.decision_logic,
                                                   row[7])
                               # row[6]
    /\ \A t, u \in Threads :
          (/\ HasReturned(t)
           /\ HasReturned(u)
           /\ call[t].args = call[u].args
           /\ call[t].timestamp # call[u].timestamp)
              => call[t].returned # call[u].returned

\* the same arguments at two clock readings, both calls returned and stored
C9_Witness ==
    /\ NumThreads >= 2
    /\ HasReturned(1)
    /\ HasReturned(2)
    /\ call[1].args = call[2].args
    /\ call[1].timestamp # call[2].timestamp
    /\ Len(RecordRows) >= 2

(***************************************************************************)
(* C10  Two calls that supply a reasoning chain never write the same       *)
(* archive file, also when they agree on the action and every hashed       *)
(* field and read the same clock; once the calls are over there are as     *)
(* many archive files as calls with a chain that returned.                 *)
(***************************************************************************)
returned_with_chain ==
    {t \in Threads : HasReturned(t) /\ call[t].args.thought_process # NoneValue}

C10_OneArchivePerRecord ==
    /\ \A t, u \in returned_with_chain :
          t # u => call[t].archive_path # call[u].archive_path
    /\ Quiescent =>
          Cardinality(archive_dir) = Cardinality(returned_with_chain)

(***************************************************************************)
(* C11  Every archive file has an owning ledger row: a row of the ledger   *)
(* carries its audit_trail_hash as Reasoning_Hash and the same timestamp,  *)
(* agent, action, user and impact; the call that wrote the archive had     *)
(* that hash and returns it.  No archive exists without its row.           *)
(***************************************************************************)
owns(row, body) ==
    /\ row[6] = body.audit_trail_hash
    /\ <<row[1], row[2], row[3], row[4], row[7]>> =
       <<body.timestamp, body.user_id, body.agent_name, body.action,
         body.compliance_impact>>

C11_ArchiveHasOwningRow ==
    LET rows == RecordRows
    IN  /\ \A f \in archive_dir :
              \E i \in 1..Len(rows) : owns(rows[i], f.content.body)
        /\ \A t \in Threads :
              call[t].archive_path # <<>> =>
                  \E f \in archive_dir :
                      /\ f.name = call[t].archive_path
                      /\ f.content.body.audit_trail_hash
                             = call[t].reasoning_hash
                      /\ HasReturned(t) =>
                             call[t].returned
                                 = f.content.body.audit_trail_hash

\* two calls with a chain have returned and left two archive files
C11_Witness ==
    /\ Cardinality(archive_dir) = 2
    /\ \A t \in Threads : HasReturned(t) /\ call[t].archive_path # <<>>

(***************************************************************************)
(* C12  Every result returned by verify_urs has exactly three findings,    *)
(* Criticality Alignment, Rationale Relevance and Contradiction Scan in    *)
(* this order, each Pass or Fail, also when an earlier check has failed    *)
(* and when no passages were retrieved.                                    *)
(***************************************************************************)
C12_AllThreeChecksRun ==
    Returned =>
        /\ Len(verification.findings) = 3
        /\ [i \in 1..3 |-> verification.findings[i].check_name] =
               <<"Criticality Alignment", "Rationale Relevance",
                 "Contradiction Scan">>
        /\ \A i \in 1..3 :
              verification.findings[i].status \in {"Pass", "Fail"}

\* nothing was retrieved and the first two checks have failed
C12_Witness ==
    /\ Returned
    /\ matches = <<>>
    /\ verification.findings[1].status = "Fail"
    /\ verification.findings[2].status = "Fail"
    /\ Len(verification.findings) = 3

(***************************************************************************)
(* C13  Criticality Alignment passes whenever the criticality is High in   *)
(* any letter case.  For any other criticality it fails if and only if a   *)
(* high-risk indicator occurs, letter case ignored, in the statement or    *)
(* in the text of the retrieved passages; the detail then lists every      *)
(* indicator that occurs; and the verdict is Rejected, also when the       *)
(* other two checks pass.                                                  *)
(***************************************************************************)
\* the text of the retrieved passages, one space between passages
passages_text ==
    LowerText(Join([i \in 1..Len(matches) |-> matches[i].text], <<" ">>))

statement_text == LowerText(urs["Requirement_Statement"])

\* the indicators that occur in one of two texts
occurring(statement_lower, text) ==
    {indicator \in {HIGH_RISK_INDICATORS[i] :
                        i \in 1..Len(HIGH_RISK_INDICATORS)} :
        \/ occurs_in(indicator, statement_lower)
        \/ occurs_in(indicator, text)}

C13_CriticalityAlignment ==
    Returned =>
        LET finding == verification.findings[1]
            found == occurring(statement_text, passages_text)
        IN  IF Lower(urs["Criticality"]) = "high"
            THEN finding.status = "Pass"
            ELSE /\ finding.status = "Fail" <=> found # {}
                 /\ finding.status = "Fail" =>
                       /\ occurring(<<>>, finding.detail) = found
                       /\ verification.verdict = "Rejected"

\* criticality Low, an indicator in the passages only, the other checks pass
C13_Witness ==
    /\ Returned
    /\ urs["Criticality"] = "Low"
    /\ occurring(statement_text, <<>>) = {}
    /\ verification.findings[1].status = "Fail"
    /\ verification.findings[2].status = "Pass"
    /\ verification.findings[3].status = "Pass"
    /\ verification.verdict = "Rejected"

(***************************************************************************)
(* C14  Contradiction Scan fails if and only if, for some pair of the      *)
(* contradiction table, one of its statement phrases occurs in the         *)
(* lower-cased statement and one of its opposing keywords occurs in the    *)
(* retrieved passages; the detail reports one contradiction for every      *)
(* such pair.                                                              *)
(***************************************************************************)
some_occurs(phrases, text) ==
    \E k \in 1..Len(phrases) : occurs_in(phrases[k], text)

contradicting_pairs(statement_lower, text) ==
    {k \in 1..Len(_CONTRADICTION_PAIRS) :
        /\ some_occurs(_CONTRADICTION_PAIRS[k].requirement_phrases,
                       statement_lower)
        /\ some_occurs(_CONTRADICTION_PAIRS[k].gamp5_keywords, text)}

\* the contradictions a detail reports
reported(detail) ==
    {k \in 1..Len(detail) : detail[k] = "Requirement contains '"}

C14_ContradictionScan ==
    Returned =>
        LET finding == verification.findings[3]
            pairs == contradicting_pairs(statement_text, passages_text)
        IN  /\ finding.status = "Fail" <=> pairs # {}
            /\ Cardinality(reported(finding.detail)) = Cardinality(pairs)

\* two pairs of the table contradict at once
C14_Witness ==
    /\ Returned
    /\ Cardinality(contradicting_pairs(statement_text, passages_text)) = 2
    /\ verification.findings[3].status = "Fail"

(***************************************************************************)
(* C15  Rationale Relevance fails if and only if no passage was retrieved  *)
(* or the greatest score of the retrieved passages, in whatever order      *)
(* they come, is below 0.45 (45 hundredths); a best score of exactly 0.45  *)
(* passes.                                                                 *)
(***************************************************************************)
C15_RationaleRelevance ==
    Returned =>
        (verification.findings[2].status = "Fail"
            <=> \/ matches = <<>>
                \/ \A i \in 1..Len(matches) : matches[i].score < 45)

\* the best score is exactly 0.45 and is not that of the first passage
C15_Witness ==
    /\ Returned
    /\ Len(matches) = 2
    /\ matches[1].score < 45
    /\ matches[2].score = 45
    /\ verification.findings[2].status = "Pass"

(***************************************************************************)
(* C16  The three findings of a result carry the same reference.  When     *)
(* passages were retrieved, in whatever order, it is the reference built   *)
(* from a passage with the highest score: its source, its page and an      *)
(* excerpt of at most 150 characters; when none was retrieved it is the    *)
(* fixed text that no reference is available.                              *)
(***************************************************************************)
best_passages ==
    {i \in 1..Len(matches) :
        \A j \in 1..Len(matches) : matches[j].score <= matches[i].score}

C16_ReferenceFromBestPassage ==
    Returned =>
        LET reference == verification.findings[1].gamp5_reference
        IN  /\ \A i \in 1..3 :
                  verification.findings[i].gamp5_reference = reference
            /\ matches = <<>> =>
                  reference = <<"No GAMP 5 reference available">>
            /\ matches # <<>> =>
                  \E i \in best_passages :
                      reference = _format_gamp5_ref(<<matches[i]>>)

\* the part of C16 that does not depend on the order of the passages
C16_SameReferenceInAllFindings ==
    Returned =>
        /\ \A i \in 1..3 :
              verification.findings[i].gamp5_reference
                  = _format_gamp5_ref(matches)
        /\ matches = <<>> =>
              verification.findings[1].gamp5_reference
                  = <<"No GAMP 5 reference available">>

(***************************************************************************)
(* C17  For every severity other than High the risk level returned by      *)
(* calculate_risk_score is the step function of the score: Low up to 4,    *)
(* Medium above 4 and up to 12, High above 12.                             *)
(***************************************************************************)
C17_RiskLevelStepFunction ==
    (risk_call.op = "calculate_risk_score"
        /\ risk_call.severity.name # "HIGH") =>
        LET score == risk_call.result[1]
            level == risk_call.result[2].value
        IN  /\ score <= 4 => level = "Low"
            /\ (4 < score /\ score <= 12) => level = "Medium"
            /\ score > 12 => level = "High"

\* severity Medium, occurrence Frequent, detectability Low: 18 and High
C17_Witness ==
    /\ risk_call.op = "calculate_risk_score"
    /\ risk_call.severity.name = "MEDIUM"
    /\ risk_call.occurrence.name = "FREQUENT"
    /\ risk_call.detectability.name = "LOW"
    /\ risk_call.result[1] = 18
    /\ risk_call.result[2].value = "High"

(***************************************************************************)
(* C18  For all 27 combinations of severity, occurrence and                *)
(* detectability, severity High included, the returned score is the        *)
(* product of the three ranks and lies in 1..27.                           *)
(***************************************************************************)
C18_ScoreIsProductOfRanks ==
    risk_call.op = "calculate_risk_score" =>
        /\ risk_call.result[1] =
               risk_call.severity.value * risk_call.occurrence.value
                   * risk_call.detectability.value
        /\ risk_call.result[1] \in 1..27

\* the override branch with the greatest ranks
C18_Witness ==
    /\ risk_call.op = "calculate_risk_score"
    /\ risk_call.severity.name = "HIGH"
    /\ risk_call.result[1] = 27

(***************************************************************************)
(* C19  The testing strategy is a function of the risk level alone: Low    *)
(* gives Unscripted, Medium gives Hybrid, High gives Rigorous Scripted,    *)
(* in every result of assess_change_request.                               *)
(***************************************************************************)
\* the strategy the claim gives for the value of a risk level
strategy_for(level) ==
    CASE level = "Low" -> TestingStrategy_UNSCRIPTED
      [] level = "Medium" -> TestingStrategy_HYBRID
      [] level = "High" -> TestingStrategy_RIGOROUS_SCRIPTED

C19_StrategyFollowsRiskLevel ==
    /\ \A risk_level \in RiskLevel :
          get_csa_testing_strategy(risk_level)
              = strategy_for(risk_level.value)
    /\ risk_call.op = "assess_change_request" =>
          risk_call.result.testing_strategy
              = strategy_for(risk_call.result.risk_level).value

\* a Medium risk level gives Hybrid
C19_Witness ==
    /\ risk_call.op = "assess_change_request"
    /\ risk_call.result.risk_level = "Medium"
    /\ risk_call.result.testing_strategy
           = "Hybrid Testing (Scripted + Unscripted)"

(***************************************************************************)
(* C20  Both decision matrices are total and constant: the risk level is   *)
(* defined for each of the 9 pairs of risk category and implementation     *)
(* method, the test strategy for each of the 9 pairs of risk level and     *)
(* implementation method, the composed lookup for all 9 inputs; and a      *)
(* lookup repeated with the same arguments, after any other lookups,       *)
(* returns the same value.                                                 *)
(***************************************************************************)
C20_MatricesTotalAndConstant ==
    /\ \A ra \in RiskAssessmentCategory, im \in ImplementationMethod :
          /\ _determine_ur_fr_risk_level(ra, im) \in URFRRiskLevel
          /\ derive_risk_and_test_strategy(ra, im) # KeyError
          /\ derive_risk_and_test_strategy(ra, im).test_strategy
                 \in URFRTestStrategy
    /\ \A risk_level \in URFRRiskLevel, im \in ImplementationMethod :
          _determine_ur_fr_test_strategy(risk_level, im) \in URFRTestStrategy
    /\ \A i, j \in 1..Len(matrix_history) :
          LET first == matrix_history[i]
              second == matrix_history[j]
          IN  /\ first.result # KeyError
              /\ (first.op = second.op /\ first.args = second.args)
                     => first.result = second.result

\* a lookup is made again after another lookup and returns what it returned
C20_Witness ==
    /\ Len(matrix_history) = 3
    /\ matrix_history[1] = matrix_history[3]
    /\ matrix_history[1].op = "_determine_ur_fr_risk_level"
    /\ matrix_history[2].op = "transform_urs_to_ur_fr"
    /\ matrix_call.result = URFRRiskLevel_LOW

(***************************************************************************)
(* C21  A matrix lookup whose pair of arguments is not a key of its table  *)
(* raises (KeyError) and returns no value of the table in its place; and   *)
(* transform_urs_to_ur_fr called with a risk-assessment or an              *)
(* implementation-method string that is no value of its enumeration raises *)
(* an error with no lookup made, no document returned, and the audit trail *)
(* and the archive directory as they were.                                 *)
(***************************************************************************)
C21_AbsentCombinationRaises ==
    /\ (matrix_call.op = "_determine_ur_fr_risk_level"
            /\ matrix_call.args \notin DOMAIN _RISK_MATRIX)
          => matrix_call.result = KeyError
    /\ (matrix_call.op = "_determine_ur_fr_test_strategy"
            /\ matrix_call.args \notin DOMAIN _TEST_STRATEGY_MATRIX)
          => matrix_call.result = KeyError
    /\ transform # NoneValue =>
          LET a == transform.args
              unrecognised ==
                  \/ a.risk_assessment
                         \notin {e.value : e \in RiskAssessmentCategory}
                  \/ a.implementation_method
                         \notin {e.value : e \in ImplementationMethod}
          IN  unrecognised =>
                  /\ "raised" \in DOMAIN transform.outcome
                  /\ "result" \notin DOMAIN transform.outcome
                  /\ transform.outcome.lookups = <<>>
                  /\ audit_file = <<>>
                  /\ archive_dir = {}

\* a risk level handed to the risk matrix in place of a risk category, and
\* a transformation of a complete URS refused for a lower-case category
C21_Witness ==
    /\ matrix_call.op = "_determine_ur_fr_risk_level"
    /\ matrix_call.args = <<URFRRiskLevel_HIGH, ImplementationMethod_CUSTOM>>
    /\ matrix_call.result = KeyError
    /\ transform # NoneValue
    /\ transform.args.urs["URS_ID"] = "URS-7.1"
    /\ transform.args.category = "General"
    /\ transform.args.risk_assessment = "gxp direct"
    /\ transform.args.implementation_method = "Custom"
    /\ transform.outcome.raised.name = "ValueError"
    /\ audit_file = <<>>

(***************************************************************************)
(* C22  Once verify_urs has returned a result, the audit trail holds       *)
(* exactly one verdict record, and it is the last record: its action is    *)
(* COMPLIANCE_EXCEPTION when the verdict is Rejected and URS_VERIFIED when *)
(* it is Approved, and the decision logic of a COMPLIANCE_EXCEPTION lists, *)
(* after "Failed checks:", the names of exactly the findings that failed.  *)
(***************************************************************************)
verdict_actions == {<<"COMPLIANCE_EXCEPTION">>, <<"URS_VERIFIED">>}

failed_check_names ==
    LET failed(f) == f.status = CheckStatus_FAIL
        failures == SelectSeq(verification.findings, failed)
    IN  [i \in 1..Len(failures) |-> <<failures[i].check_name>>]

C22_EveryVerificationLogged ==
    Returned =>
        LET rows == RecordRows
            verdict_rows == {i \in 1..Len(rows) : rows[i][4] \in verdict_actions}
        IN  /\ verdict_rows = {Len(rows)}
            /\ rows[Len(rows)][3] = <<"VerificationAgent">>
            /\ rows[Len(rows)][4] = <<"COMPLIANCE_EXCEPTION">>
                   <=> verification.verdict = Verdict_REJECTED
            /\ rows[Len(rows)][4] = <<"URS_VERIFIED">>
                   <=> verification.verdict = Verdict_APPROVED
            /\ verification.verdict = Verdict_REJECTED =>
                   IsPrefix(<<"REJECTED ", verification.urs_id,
                              ": Failed checks: ">>
                                \o Join(failed_check_names, <<",", " ">>)
                                \o <<". ">>,
                            rows[Len(rows)][5])

\* a rejection with two failed checks, logged after the record of a
\* regulatory version seen for the first time
C22_Witness ==
    /\ Returned
    /\ verification.verdict = Verdict_REJECTED
    /\ Len(failed_check_names) = 2
    /\ LET rows == RecordRows
       IN  /\ Len(rows) = 2
           /\ rows[1][4] = <<"REG_VERSION_CHANGE_DETECTED">>
           /\ rows[2][4] = <<"COMPLIANCE_EXCEPTION">>

(***************************************************************************)
(* C23  When AgentController.assess_risk has returned an assessment, the   *)
(* audit file holds a record that was appended after assess_change_request *)
(* produced that assessment.                                               *)
(***************************************************************************)
records_since_result ==
    LET rows == RecordRows
        at_result == api_call.rows_before
                         + api_call.outcome.logged_before_delegate
    IN  SubSeq(rows, at_result + 1, Len(rows))

C23_AssessmentLoggedAfterScoring ==
    (api_call.method = "assess_risk" /\ "result" \in DOMAIN api_call.outcome)
        => records_since_result # <<>>

\* what does hold: the one record of an assess_risk call is the API_REQUEST
\* record, appended before the scoring, and it names the two inputs
C23_RequestLoggedBeforeScoring ==
    (api_call.method = "assess_risk" /\ "result" \in DOMAIN api_call.outcome)
        => LET rows == RecordRows
           IN  /\ Len(rows) = api_call.rows_before + 1
               /\ rows[Len(rows)][4] = <<"API_REQUEST">>
               /\ rows[Len(rows)][5] =
                      <<"Endpoint: ", "assess_risk", " ", "|", " ",
                        "Input: ", "criticality=",
                        api_call.args.system_criticality, ",",
                        " type=", api_call.args.change_type>>

(***************************************************************************)
(* C24  After a call of any public method of AgentController, the first    *)
(* record the call has added to the audit file is an API_REQUEST record of *)
(* the AgentController naming the method, written before the method        *)
(* delegated; the records of the delegated operation come after it.        *)
(***************************************************************************)
records_of_call ==
    LET rows == RecordRows
    IN  SubSeq(rows, api_call.rows_before + 1, Len(rows))

request_record_first ==
    LET mine == records_of_call
    IN  /\ api_call.outcome.logged_before_delegate >= 1
        /\ mine # <<>>
        /\ mine[1][3] = <<"AgentController">>
        /\ mine[1][4] = <<"API_REQUEST">>
        /\ IsPrefix(<<"Endpoint: ", api_call.method>>, mine[1][5])
        /\ \A i \in 2..Len(mine) : mine[i][4] # <<"API_REQUEST">>

C24_ApiRequestPrecedesDelegate ==
    api_call.method \in PublicMethods => request_record_first

\* what does hold: every public method but log_event does so
C24_AllButLogEvent ==
    api_call.method \in PublicMethods \ {"log_event"} => request_record_first

(***************************************************************************)
(* C25  The two free-text mappings never fail and ignore case: a           *)
(* criticality or change type that is in the table, in any case, gets the  *)
(* table's rank; one that is not gets MEDIUM severity and OCCASIONAL        *)
(* occurrence; and assess_change_request returns an assessment with all    *)
(* seven entries for every pair.                                           *)
(***************************************************************************)
severity_of_criticality ==
    [k \in {"high", "critical", "medium", "moderate", "low", "minor"} |->
        CASE k \in {"high", "critical"} -> "HIGH"
          [] k \in {"medium", "moderate"} -> "MEDIUM"
          [] OTHER -> "LOW"]

occurrence_of_change_type ==
    [k \in {"emergency", "expedited", "normal", "standard", "routine"} |->
        CASE k \in {"emergency", "expedited"} -> "FREQUENT"
          [] k = "normal" -> "OCCASIONAL"
          [] OTHER -> "RARE"]

\* a spelling and the table entry it differs from only in case
case_variants ==
    {<<"HIGH", "high">>, <<"High", "high">>, <<"Critical", "critical">>,
     <<"Medium", "medium">>, <<"LOW", "low">>, <<"Emergency", "emergency">>,
     <<"NORMAL", "normal">>, <<"Standard", "standard">>}

unmapped_inputs == {"urgent", "hotfix", ""}

C25_MappingsTotalFailOpen ==
    risk_call.op = "assess_change_request" =>
        LET r == risk_call.result
            sc == risk_call.system_criticality
            ct == risk_call.change_type
        IN  /\ DOMAIN r = {"severity", "occurrence", "detectability", "rpn",
                           "risk_level", "testing_strategy",
                           "patient_safety_override"}
            /\ r.severity \in {"LOW", "MEDIUM", "HIGH"}
            /\ r.occurrence \in {"RARE", "OCCASIONAL", "FREQUENT"}
            /\ r.detectability = risk_call.detectability.name
            /\ r.rpn \in 1..27
            /\ r.risk_level \in {"Low", "Medium", "High"}
            /\ r.testing_strategy \in
                   {TestingStrategy_UNSCRIPTED.value,
                    TestingStrategy_HYBRID.value,
                    TestingStrategy_RIGOROUS_SCRIPTED.value}
            /\ r.patient_safety_override \in BOOLEAN
            /\ sc \in DOMAIN severity_of_criticality
                   => r.severity = severity_of_criticality[sc]
            /\ ct \in DOMAIN occurrence_of_change_type
                   => r.occurrence = occurrence_of_change_type[ct]
            /\ \A v \in case_variants :
                   /\ sc = v[1] => r.severity = severity_of_criticality[v[2]]
                   /\ ct = v[1]
                         => r.occurrence = occurrence_of_change_type[v[2]]
            /\ sc \in unmapped_inputs => r.severity = "MEDIUM"
            /\ ct \in unmapped_inputs => r.occurrence = "OCCASIONAL"

C25_Witness ==
    /\ risk_call.op = "assess_change_request"
    /\ risk_call.system_criticality = "urgent"
    /\ risk_call.change_type = "Emergency"
    /\ risk_call.result.severity = "MEDIUM"
    /\ risk_call.result.occurrence = "FREQUENT"

(***************************************************************************)
(* C26  The webhook answers "assessed" only when the request has appended  *)
(* a CHANGE_REQUEST_RECEIVED record and, after it, a                       *)
(* CHANGE_REQUEST_ASSESSED record to the audit file; a request in which a  *)
(* ledger append raised is answered with an error and never as assessed.   *)
(***************************************************************************)
\* what the last request has appended to the audit file, read as rows
\* (without the header, when the request created the file)
rows_of_request ==
    LET before == response.file_before
        added == SubSeq(audit_file, Len(before) + 1, Len(audit_file))
        rows == csv_reader(added)
    IN  IF before = <<>> THEN rows_after_first(rows) ELSE rows

answered_assessed ==
    /\ "status" \in DOMAIN response.answer
    /\ response.answer.status = "assessed"

C26_FailedAppendFailsRequest ==
    response # NoneValue =>
        /\ IsPrefix(response.file_before, audit_file)
        /\ answered_assessed =>
               LET rows == rows_of_request
                   user == <<response.request.user_id>>
               IN  \E i, j \in 1..Len(rows) :
                       /\ i < j
                       /\ Len(rows[i]) = 7 /\ Len(rows[j]) = 7
                       /\ rows[i][2] = user /\ rows[j][2] = user
                       /\ rows[i][3] = <<"API">> /\ rows[j][3] = <<"API">>
                       /\ rows[i][4] = <<"CHANGE_REQUEST_RECEIVED">>
                       /\ rows[j][4] = <<"CHANGE_REQUEST_ASSESSED">>
        /\ response.appends_raised > 0 =>
               /\ ~answered_assessed
               /\ response.answer.http_status = 500

\* a request answered as assessed after a request whose failed append left
\* a torn row at the end of the audit file
C26_Witness ==
    /\ response # NoneValue
    /\ answered_assessed
    /\ response.file_before # <<>>
    /\ response.file_before[Len(response.file_before)] # LINETERMINATOR

(***************************************************************************)
(* C27  The write lock is held only by a call that is inside the with      *)
(* block: a call that has returned or raised does not hold it, and when no *)
(* call is running the lock is free.  When threads that can take a step    *)
(* are scheduled sooner or later, every call that waits for the lock gets  *)
(* it: it does not wait for ever, and it stops waiting only as the holder  *)
(* of the lock.                                                            *)
(***************************************************************************)
LockedRegion == {"line303", "line305", "line311", "line319", "unwind"}

LockHeldByRunningCall ==
    /\ _write_lock # NoThread => call[_write_lock].pc \in LockedRegion
    /\ \A t \in Threads :
           /\ call[t].pc \in LockedRegion => _write_lock = t
           /\ call[t].pc \in {"returned", "raised"} => _write_lock # t
    /\ (\A t \in Threads : call[t].pc \in {"idle", "returned", "raised"})
           => _write_lock = NoThread

\* a call stops waiting at line 302 only by taking the lock
WaitEndsWithLock ==
    \A t \in Threads :
        (call[t].pc = "line302" /\ call'[t].pc # "line302")
            => _write_lock' = t

\* no call waits at line 302 for ever; with WaitEndsWithLock: every call
\* that waits for the lock gets it
C27_LockReleasedOnEveryExit ==
    /\ []LockHeldByRunningCall
    /\ [][WaitEndsWithLock]_vars
    /\ \A t \in Threads : []<>(call[t].pc # "line302")

\* a call holds the lock after another call has raised inside the block
C27_Witness ==
    \E t, u \in Threads :
        /\ call[t].pc = "raised"
        /\ call[t].raised \in {"ValueError", "OSError"}
        /\ _write_lock = u

(***************************************************************************)
(* C28  Two records that differ in any of the six hashed fields have       *)
(* different reasoning hashes, also when a field contains the character    *)
(* "|" that separates the fields in the hashed payload.                    *)
(***************************************************************************)
C28_HashIdentifiesRecord ==
    hash_call.op = "_compute_reasoning_hash" =>
        (hash_call.first # hash_call.second
            => hash_call.hashes[1] # hash_call.hashes[2])

\* what does hold: records that differ and have no "|" in any field have
\* different hashes
has_separator(r) ==
    \E f \in DOMAIN r : Contains(r[f], {"|"})

C28_DistinctWithoutSeparator ==
    hash_call.op = "_compute_reasoning_hash" =>
        ((/\ hash_call.first # hash_call.second
          /\ ~has_separator(hash_call.first)
          /\ ~has_separator(hash_call.second))
            => hash_call.hashes[1] # hash_call.hashes[2])

(***************************************************************************)
(* C29  However the verify_urs calls of one process interleave, the audit  *)
(* file holds at most one REG_VERSION_CHANGE_DETECTED record for each      *)
(* regulatory version.  (That no step removes a version from the set of    *)
(* known versions is C29_KnownVersionsOnlyGrow.)                           *)
(***************************************************************************)
version_records(rows, ver) ==
    {i \in 1..Len(rows) :
        /\ rows[i][3] = <<"VerificationAgent">>
        /\ rows[i][4] = <<"REG_VERSION_CHANGE_DETECTED">>
        /\ rows[i][5] = version_event(ver).decision_logic}

C29_OneRecordPerVersion ==
    LET rows == RecordRows
    IN  \A ver \in {"v1", "v2"} : Cardinality(version_records(rows, ver)) <= 1

\* what does hold under every interleaving: the set only grows
known_versions_only_grow == _KNOWN_REG_VERSIONS \subseteq _KNOWN_REG_VERSIONS'

C29_KnownVersionsOnlyGrow == [][known_versions_only_grow]_vars

\* what does hold: calls made one after the other through the controller
\* leave one record for each version at most
C29_OneRecordWhenCallsDoNotOverlap ==
    api_call.method = "verify_urs" => C29_OneRecordPerVersion

(***************************************************************************)
(* C30  An assessment made by assess_change_request without a              *)
(* detectability argument has risk level High if and only if its           *)
(* patient_safety_override is true, that is, if and only if the mapped     *)
(* severity is HIGH; with severity MEDIUM or LOW the score is 12 at most.  *)
(***************************************************************************)
C30_HighOnlyByOverride ==
    (risk_call.op = "assess_change_request"
        /\ "defaulted" \in DOMAIN risk_call) =>
        LET r == risk_call.result
        IN  /\ r.detectability = "MEDIUM"
            /\ (r.risk_level = "High") <=> r.patient_safety_override
            /\ r.patient_safety_override <=> (r.severity = "HIGH")
            /\ r.severity \in {"MEDIUM", "LOW"} => r.rpn <= 12

\* the highest score without the override: MEDIUM severity, FREQUENT
\* occurrence
C30_Witness ==
    /\ risk_call.op = "assess_change_request"
    /\ "defaulted" \in DOMAIN risk_call
    /\ risk_call.system_criticality = "moderate"
    /\ risk_call.change_type = "Emergency"
    /\ risk_call.result.rpn = 12
    /\ risk_call.result.risk_level = "Medium"
    /\ ~risk_call.result.patient_safety_override

====
